---- MODULE Spec2Model ----
(***************************************************************************)
(* AMAC: the concurrent probing engine.                                    *)
(*                                                                         *)
(*   Spec        HttpClient.request called concurrently (budget gate,      *)
(*               global and per-host semaphores, attempt loop)             *)
(*   SpecLimiter AsyncRateLimiter.acquire over a discrete clock            *)
(*   SpecProbe   run_basic_probes: scope check, identity resolution,       *)
(*               batches of _probe_one tasks, rows and summary             *)
(*                                                                         *)
(* asyncio is cooperative: the code between two awaits is one step, so     *)
(* every action below is the code from one suspension point to the next.   *)
(***************************************************************************)
EXTENDS Integers, Sequences, FiniteSets, TLC

\* ------------------------------------------------------------------------
\* Bounds of the model
\* ------------------------------------------------------------------------
\* concurrent calls of HttpClient.request
NumRequests == 2
\* hard_request_budget K of the budgeted runs (the other runs use 0 = unlimited)
HardBudget == 1
\* largest RequestPolicy.concurrency and per_host_concurrency handed to HttpClient
MaxConcurrency == 2
MaxPerHostConcurrency == 1
\* concurrent calls of AsyncRateLimiter.acquire
NumCallers == 3
\* largest `rate` handed to AsyncRateLimiter
MaxRate == 2
\* clock ticks in the limiter's 1-second window
Second == 2
\* last tick of the clock
MaxClock == 5
\* largest number of endpoints in the EndpointSet of a probe run
NumEndpoints == 2
\* path items of a mapped document
MaxPaths == 2
\* depth at which the interpreter stops a recursion
RecursionLimit == 3

\* ------------------------------------------------------------------------
\* Program constants
\* ------------------------------------------------------------------------
\* max_attempts=3 (the value run_basic_probes passes, and the default)
MaxAttempts == 3
\* global_jitter_ms default
JitterMs == 60
\* Semaphore size used when the configured cap is <= 0
UnlimitedCap == 1000
\* BATCH = max(1, rp.concurrency * 6)
BatchFactor == 6
\* _safe_stem(s, limit=80)
StemLimit == 80

RETRYABLE_STATUS == {429, 500, 502, 503, 504}

\* ------------------------------------------------------------------------
\* Values
\* ------------------------------------------------------------------------
None == 0
\* a send that raised httpx.TimeoutException / httpx.TransportError
TransportFailure == -1
\* what the target may answer to one send of HttpClient.request
Statuses == {200, 503}
SendOutcomes == Statuses \cup {TransportFailure}

Requests == 1..NumRequests
HostNames == {"a.test", "b.test"}
\* _host_of(url): the (lower-cased) hostname of the url of call r
HostOf(r) == IF r <= 2 THEN "a.test" ELSE "b.test"

Callers == 1..NumCallers

NoSnapshot == [kind |-> "none", status |-> None, errtype |-> "none", attempts |-> 0]

VARIABLES
  \* ---- HttpClient
  concurrency,     \* the `concurrency` argument of HttpClient
  per_host_concurrency,  \* the `per_host_concurrency` argument of HttpClient
  budget,          \* self._budget
  requests_made,   \* self._requests_made
  sem_global,      \* self._sem_global._value
  sem_per_host,    \* self._sem_per_host: hostname -> semaphore value, created on first use
  rpc,             \* per call: where request() is suspended
  attempts,        \* per call: local `attempts`
  response,        \* per call: local `response` (None or the last status received)
  last_exc,        \* per call: local `last_exc` is set
  snap,            \* per call: the snapshot request() returned
  outcomes,        \* per call: history of the outcomes of its sends (observer)
  gates,           \* per call: counts of gate/limiter operations (observer)
  \* ---- AsyncRateLimiter
  rate,            \* self.rate
  clock,           \* time.monotonic(), in ticks
  dq,              \* self._dq
  lock_holder,     \* self._lock: the caller holding it, or None
  lock_waiters,    \* self._lock: the callers waiting for it, in arrival order
  lpc,             \* per caller: where acquire() is suspended
  wake_at,         \* per caller: when its asyncio.sleep is due
  acq_log,         \* timestamps of the acquisitions completed within the last second (observer)
  \* ---- run_basic_probes
  endpoints_n,     \* len(endpoints.endpoints); the endpoints are indexed 0..n-1
  scope_class,     \* per endpoint: how its url fares against the scope
  dry_run,         \* argument dry_run
  use_all_identities,  \* argument use_all_identities
  passes_declared, \* the caller of _authed_request_with_refresh passes the declared
                   \* scheme as s_original (_probe_one passes the effective identity)
  configured,      \* auth.auth_schemes, the declarative identities
  run_pc,          \* where run_basic_probes is: start, resolve, probing, returned, raised
  run_error,       \* the exception run_basic_probes raised
  dirs_created,    \* out_dir and out_dir/requests exist
  client_state,    \* the HttpClient of the run: none, open, closed
  effective_identities,  \* the resolved identities, shared by all endpoint tasks
  batch_start,     \* start index of the running batch
  tpc,             \* per endpoint task: where _probe_one is suspended
  tj,              \* per endpoint task: index j of the identity being probed
  pending,         \* per endpoint task: the snapshot held across a refresh
  row_locals,      \* per endpoint task: noauth_* and legacy_auth_* of _probe_one
  variants,        \* per endpoint task: the `variants` dict
  files,           \* the snapshot files under out_dir/requests
  written,         \* every write_snapshot call made: file, endpoint, variant, snapshot (observer)
  legacy_rows,     \* legacy_rows
  matrix_rows,     \* matrix_rows
  summary,         \* out_dir/summary.json
  completion_order,  \* endpoint indexes in the order their tasks completed (observer)
  probe_log,       \* per endpoint and identity: first status, refreshes, requests (observer)
  \* ---- load_and_map_openapi
  m_doc,           \* the OpenAPI document _load_spec returned
  m_scope,         \* argument scope
  map_pc,          \* where load_and_map_openapi is: start, paths, returned, raised
  path_i,          \* position of the loop over doc["paths"]
  base_urls,       \* local base_urls
  endpoints_acc,   \* local `endpoints`
  map_result,      \* the endpoints of the EndpointSet returned
  map_error,       \* the exception load_and_map_openapi raised
  map_run,         \* which mapping of the document this is: first or second
  first_result,    \* what the first mapping returned
  map_warnings,    \* the operations whose generated body failed validation (logged)
  \* ---- _operation_requires_auth
  sec_nodes,       \* the `security` declarations of document, path item and operation
  sec_result,      \* the value returned
  \* ---- _deref
  ref_components,  \* the objects a local pointer can name
  ref_obj,         \* argument obj
  ref_result,      \* the value returned, or the exception raised
  \* ---- request headers of a snapshot
  hdr_scheme,      \* argument auth_scheme of HttpClient.request
  hdr_headers,     \* argument headers
  hdr_cookie,      \* argument cookie
  hdr_pc,          \* "start", then "recorded"
  hdr_recorded,    \* snapshot["request"]["headers"]
  \* ---- _host_matches
  hm_pattern,      \* argument pattern
  hm_host,         \* argument host
  hm_result,       \* the value returned
  \* ---- sample_schema_value
  smp_schema,      \* argument schema
  smp_hint,        \* argument name_hint
  smp_result,      \* the value returned
  \* ---- _load_spec and the first use of the loaded document
  ld_src,          \* the `src` argument
  ld_fetch,        \* whether reading src succeeds
  ld_text,         \* what json.loads and yaml.safe_load make of the text
  ld_pc,           \* position: start, read, loaded, mapping, raised
  ld_doc,          \* the kind of value _load_spec returned
  ld_error,        \* the exception raised
  ld_where,        \* the function that raised it
  \* ---- analyze_summary
  cl_rows,         \* summary_json['rows']
  cl_i,            \* index of the row the loop is at
  cl_pc,           \* position: rows, counts, returned
  cl_findings,     \* all_findings
  cl_counts,       \* the `counts` object returned
  \* ---- the attempt loop of one HttpClient.request
  rt_configured,   \* the max_attempts argument of HttpClient
  rt_max_attempts, \* self.max_attempts
  rt_pc,           \* position: new, loop, backoff, done
  rt_attempts,     \* local attempts
  rt_response,     \* local response (None: no response yet)
  rt_last_exc,     \* whether last_exc is set
  rt_events,       \* the sends, with their outcomes, and the backoff sleeps so far
  rt_snap,         \* the snapshot returned
  \* ---- _probe_one, request by request
  p1_identities,   \* the identities passed to _probe_one
  p1_pc,           \* endpoint -> position of its _probe_one coroutine
  p1_j,            \* endpoint -> index of the variant at hand (0: no-auth)
  p1_inflight,     \* endpoint -> requests sent and not yet answered
  p1_snap,         \* endpoint -> status of the snapshot at hand
  p1_events,       \* endpoint -> the sends, answers and writes so far
  \* ---- lightweight_discover
  cw_budget,       \* the budget argument
  cw_fetched,      \* fetched, the counter the workers share
  cw_queue,        \* q: the kinds of the urls queued, first in first out
  cw_unseen,       \* links and sitemaps of the site not yet in `seen`
  cw_pc,           \* worker -> position in its loop
  cw_url           \* worker -> the kind of the url it took from q

cfgVars == <<concurrency, per_host_concurrency, budget>>

clientVars == <<cfgVars, requests_made, sem_global, sem_per_host, rpc, attempts,
                response, last_exc, snap, outcomes, gates>>

limiterVars == <<rate, clock, dq, lock_holder, lock_waiters, lpc, wake_at, acq_log>>

runInputs == <<endpoints_n, scope_class, dry_run, use_all_identities, passes_declared>>

probeVars == <<runInputs, configured, run_pc, run_error, dirs_created, client_state,
               effective_identities, batch_start, tpc, tj, pending, row_locals, variants, files,
               written, legacy_rows, matrix_rows, summary, completion_order, probe_log>>

mapperVars == <<m_doc, m_scope, map_pc, path_i, base_urls, endpoints_acc, map_result,
                map_error, map_run, first_result, map_warnings>>

securityVars == <<sec_nodes, sec_result>>

derefVars == <<ref_components, ref_obj, ref_result>>

headerVars == <<hdr_scheme, hdr_headers, hdr_cookie, hdr_pc, hdr_recorded>>

hostMatchVars == <<hm_pattern, hm_host, hm_result>>

samplerVars == <<smp_schema, smp_hint, smp_result>>

loaderVars == <<ld_src, ld_fetch, ld_text, ld_pc, ld_doc, ld_error, ld_where>>

analysisVars == <<cl_rows, cl_i, cl_pc, cl_findings, cl_counts>>

retryVars == <<rt_configured, rt_max_attempts, rt_pc, rt_attempts, rt_response, rt_last_exc, rt_events, rt_snap>>

probeOneVars == <<p1_identities, p1_pc, p1_j, p1_inflight, p1_snap, p1_events>>

crawlVars == <<cw_budget, cw_fetched, cw_queue, cw_unseen, cw_pc, cw_url>>

functionVars == <<hostMatchVars, samplerVars, loaderVars, analysisVars, retryVars, probeOneVars, crawlVars>>

discoveryVars == <<mapperVars, securityVars, derefVars, headerVars, functionVars>>

vars == <<clientVars, limiterVars, probeVars, discoveryVars>>

\* what the steps of HttpClient.request leave alone
notClient == <<limiterVars, probeVars, discoveryVars>>
\* what the steps of AsyncRateLimiter.acquire leave alone
notLimiter == <<clientVars, probeVars, discoveryVars>>
\* what the steps of run_basic_probes leave alone: its HttpClient is used through
\* RequestResult, which reads and counts the budget
notProbe == <<limiterVars, cfgVars, sem_global, sem_per_host, rpc, attempts, response,
              last_exc, snap, outcomes, gates, discoveryVars>>
\* what the steps of load_and_map_openapi, _operation_requires_auth and _deref leave
\* alone
notMapper == <<clientVars, limiterVars, probeVars, securityVars, derefVars, headerVars,
                functionVars>>
notSecurity == <<clientVars, limiterVars, probeVars, mapperVars, derefVars, headerVars,
                  functionVars>>
notDeref == <<clientVars, limiterVars, probeVars, mapperVars, securityVars, headerVars,
               functionVars>>
notHeaders == <<clientVars, limiterVars, probeVars, mapperVars, securityVars, derefVars,
                 functionVars>>
notHostMatch == <<clientVars, limiterVars, probeVars, mapperVars, securityVars, derefVars, headerVars, samplerVars, loaderVars, analysisVars, retryVars, probeOneVars, crawlVars>>
notSampler == <<clientVars, limiterVars, probeVars, mapperVars, securityVars, derefVars, headerVars, hostMatchVars, loaderVars, analysisVars, retryVars, probeOneVars, crawlVars>>
notLoader == <<clientVars, limiterVars, probeVars, mapperVars, securityVars, derefVars, headerVars, hostMatchVars, samplerVars, analysisVars, retryVars, probeOneVars, crawlVars>>
notAnalysis == <<clientVars, limiterVars, probeVars, mapperVars, securityVars, derefVars, headerVars, hostMatchVars, samplerVars, loaderVars, retryVars, probeOneVars, crawlVars>>
notRetry == <<clientVars, limiterVars, probeVars, mapperVars, securityVars, derefVars, headerVars, hostMatchVars, samplerVars, loaderVars, analysisVars, probeOneVars, crawlVars>>
notProbeOne == <<clientVars, limiterVars, probeVars, mapperVars, securityVars, derefVars, headerVars, hostMatchVars, samplerVars, loaderVars, analysisVars, retryVars, crawlVars>>
notCrawl == <<clientVars, limiterVars, probeVars, mapperVars, securityVars, derefVars, headerVars, hostMatchVars, samplerVars, loaderVars, analysisVars, retryVars, probeOneVars>>

\* ------------------------------------------------------------------------
\* HttpClient
\* ------------------------------------------------------------------------
\* HttpClient._error_snapshot
ErrorSnapshot(err_type, n) ==
  [kind |-> "error", status |-> None, errtype |-> err_type, attempts |-> n]

\* HttpClient._snapshot_response (status and attempt count of the snapshot)
ResponseSnapshot(status, n) ==
  [kind |-> "response", status |-> status, errtype |-> "none", attempts |-> n]

\* asyncio.Semaphore(n if n > 0 else 1000)
SemaphoreSize(n) == IF n > 0 THEN n ELSE UnlimitedCap

\* variant: the exhaustion test written `>` instead of `>=`
BudgetAvailableOffByOne(b, made) == b = 0 \/ ~(made > b)

\* HttpClient._consume_budget: TRUE when the call may proceed
BudgetAvailable(b, made) == b = 0 \/ ~(made >= b)

\* HttpClient._consume_budget: the counter after a call that proceeds
BudgetAfterConsume(b, made) == IF b = 0 THEN made ELSE made + 1

\* variant: the last retry is dropped
RetryStatusEarlyStop(status, n) == status \in RETRYABLE_STATUS /\ n < MaxAttempts - 1

\* the retry condition of the attempt loop, for a received status
RetryStatus(status, n) == status \in RETRYABLE_STATUS /\ n < MaxAttempts

\* the retry condition of the attempt loop, for a transport failure
RetryTransport(n) == n < MaxAttempts

\* variant: a semaphore that admits one holder too many
SemFreeOffByOne(value) == value >= 0

\* asyncio.Semaphore.acquire may proceed
SemFree(value) == value > 0

NoGates == [g_acq |-> 0, h_acq |-> 0, g_rel |-> 0, h_rel |-> 0, lim |-> 0]

ClientInit ==
  /\ requests_made = 0
  /\ sem_global = SemaphoreSize(concurrency)
  /\ sem_per_host = <<>>
  /\ rpc = [r \in Requests |-> "idle"]
  /\ attempts = [r \in Requests |-> 0]
  /\ response = [r \in Requests |-> None]
  /\ last_exc = [r \in Requests |-> FALSE]
  /\ snap = [r \in Requests |-> NoSnapshot]
  /\ outcomes = [r \in Requests |-> <<>>]
  /\ gates = [r \in Requests |-> NoGates]

\* the per-host semaphore table after `self._sem_per_host[host]`
HostTableWith(table, h) ==
  IF h \in DOMAIN table THEN table
  ELSE [x \in (DOMAIN table) \cup {h} |->
          IF x = h THEN SemaphoreSize(per_host_concurrency) ELSE table[x]]

\* request(), from the call to the first suspension: the budget gate, header
\* assembly, lookup of the per-host semaphore
RequestStart(r) ==
  /\ rpc[r] = "idle"
  /\ IF BudgetAvailable(budget, requests_made)
       THEN /\ requests_made' = BudgetAfterConsume(budget, requests_made)
            /\ sem_per_host' = HostTableWith(sem_per_host, HostOf(r))
            /\ rpc' = [rpc EXCEPT ![r] = "acq_global"]
            /\ snap' = snap
       ELSE /\ snap' = [snap EXCEPT ![r] = ErrorSnapshot("budget_exceeded", 0)]
            /\ rpc' = [rpc EXCEPT ![r] = "done"]
            /\ UNCHANGED <<requests_made, sem_per_host>>
  /\ UNCHANGED <<cfgVars, sem_global, attempts, response, last_exc, outcomes, gates>>
  /\ UNCHANGED notClient

\* `async with self._sem_global`
AcquireGlobal(r) ==
  /\ rpc[r] = "acq_global"
  /\ SemFree(sem_global)
  /\ sem_global' = sem_global - 1
  /\ gates' = [gates EXCEPT ![r].g_acq = @ + 1]
  /\ rpc' = [rpc EXCEPT ![r] = "acq_host"]
  /\ UNCHANGED <<cfgVars, requests_made, sem_per_host, attempts, response, last_exc,
                 snap, outcomes>>
  /\ UNCHANGED notClient

\* where an attempt starts: the jitter sleep when jitter_ms is set
AttemptEntry == IF JitterMs > 0 THEN "jitter" ELSE "limiter"

\* `async with ..., sem_host`, then the first `attempts += 1`
AcquireHost(r) ==
  /\ rpc[r] = "acq_host"
  /\ SemFree(sem_per_host[HostOf(r)])
  /\ sem_per_host' = [sem_per_host EXCEPT ![HostOf(r)] = @ - 1]
  /\ gates' = [gates EXCEPT ![r].h_acq = @ + 1]
  /\ attempts' = [attempts EXCEPT ![r] = @ + 1]
  /\ rpc' = [rpc EXCEPT ![r] = AttemptEntry]
  /\ UNCHANGED <<cfgVars, requests_made, sem_global, response, last_exc, snap, outcomes>>
  /\ UNCHANGED notClient

\* the jitter sleep ends
JitterDone(r) ==
  /\ rpc[r] = "jitter"
  /\ rpc' = [rpc EXCEPT ![r] = "limiter"]
  /\ UNCHANGED <<cfgVars, requests_made, sem_global, sem_per_host, attempts, response,
                 last_exc, snap, outcomes, gates>>
  /\ UNCHANGED notClient

\* `await self._limiter.acquire()` returns
LimiterReturn(r) ==
  /\ rpc[r] = "limiter"
  /\ gates' = [gates EXCEPT ![r].lim = @ + 1]
  /\ rpc' = [rpc EXCEPT ![r] = "send"]
  /\ UNCHANGED <<cfgVars, requests_made, sem_global, sem_per_host, attempts, response,
                 last_exc, snap, outcomes>>
  /\ UNCHANGED notClient

\* the snapshot request() returns once the attempt loop has ended
FinalSnapshot(resp, n) ==
  IF resp = None THEN ErrorSnapshot("transport_error", n)
  ELSE ResponseSnapshot(resp, n)

\* variant: the per-host semaphore is kept when the loop ends
LoopEndsKeepingHostGate(r, resp, n) ==
  /\ sem_per_host' = sem_per_host
  /\ sem_global' = sem_global + 1
  /\ gates' = [gates EXCEPT ![r].g_rel = @ + 1]
  /\ snap' = [snap EXCEPT ![r] = FinalSnapshot(resp, n)]
  /\ rpc' = [rpc EXCEPT ![r] = "done"]

\* the end of the attempt loop: `async with` releases the per-host and the global
\* semaphore, and request() returns the snapshot
LoopEnds(r, resp, n) ==
  /\ sem_per_host' = [sem_per_host EXCEPT ![HostOf(r)] = @ + 1]
  /\ sem_global' = sem_global + 1
  /\ gates' = [gates EXCEPT ![r].h_rel = @ + 1, ![r].g_rel = @ + 1]
  /\ snap' = [snap EXCEPT ![r] = FinalSnapshot(resp, n)]
  /\ rpc' = [rpc EXCEPT ![r] = "done"]

\* the send of one attempt returns with outcome o (a status, or a transport failure):
\* the loop either backs off or ends
SendReturns(r, o) ==
  /\ rpc[r] = "send"
  /\ outcomes' = [outcomes EXCEPT ![r] = Append(@, o)]
  /\ LET resp == IF o = TransportFailure THEN response[r] ELSE o
         exc == IF o = TransportFailure THEN TRUE ELSE last_exc[r]
         again == IF o = TransportFailure THEN RetryTransport(attempts[r])
                  ELSE RetryStatus(o, attempts[r])
     IN /\ response' = [response EXCEPT ![r] = resp]
        /\ last_exc' = [last_exc EXCEPT ![r] = exc]
        /\ IF again
             THEN /\ rpc' = [rpc EXCEPT ![r] = "backoff"]
                  /\ UNCHANGED <<sem_global, sem_per_host, gates, snap>>
             ELSE LoopEnds(r, resp, attempts[r])
  /\ UNCHANGED <<cfgVars, requests_made, attempts>>
  /\ UNCHANGED notClient

\* _sleep_backoff ends, `continue`: the loop condition, then the next `attempts += 1`
BackoffDone(r) ==
  /\ rpc[r] = "backoff"
  /\ IF attempts[r] < MaxAttempts
       THEN /\ attempts' = [attempts EXCEPT ![r] = @ + 1]
            /\ rpc' = [rpc EXCEPT ![r] = AttemptEntry]
            /\ UNCHANGED <<sem_global, sem_per_host, gates, snap>>
       ELSE /\ LoopEnds(r, response[r], attempts[r])
            /\ UNCHANGED attempts
  /\ UNCHANGED <<cfgVars, requests_made, response, last_exc, outcomes>>
  /\ UNCHANGED notClient

\* the steps of call r once it is under way: each is taken when the semaphore is
\* free, the sleep over, the limiter passed or the send answered
RequestProgress(r) ==
  \/ AcquireGlobal(r)
  \/ AcquireHost(r)
  \/ JitterDone(r)
  \/ LimiterReturn(r)
  \/ \E o \in SendOutcomes : SendReturns(r, o)
  \/ BackoffDone(r)

ClientNext ==
  \E r \in Requests :
    \/ RequestStart(r)
    \/ AcquireGlobal(r)
    \/ AcquireHost(r)
    \/ JitterDone(r)
    \/ LimiterReturn(r)
    \/ \E o \in SendOutcomes : SendReturns(r, o)
    \/ BackoffDone(r)

\* ------------------------------------------------------------------------
\* AsyncRateLimiter
\* ------------------------------------------------------------------------
\* `while self._dq and (now - self._dq[0]) >= 1.0: self._dq.popleft()`
RECURSIVE DropOld(_, _)
DropOld(q, now) ==
  IF q # <<>> /\ (now - Head(q)) >= Second THEN DropOld(Tail(q), now) ELSE q

\* variant: the window admits one timestamp too many
HasRoomOffByOne(q, r) == Len(q) <= r

\* `len(self._dq) < self.rate`
HasRoom(q, r) == Len(q) < r

\* `wait_for = 1.0 - (now - self._dq[0])`
WaitFor(q, now) == Second - (now - Head(q))

LimiterStart ==
  /\ clock = 0
  /\ dq = <<>>
  /\ lock_holder = None
  /\ lock_waiters = <<>>
  /\ lpc = [c \in Callers |-> "idle"]
  /\ wake_at = [c \in Callers |-> 0]
  /\ acq_log = <<>>

\* the body of `async with self._lock`, from the lock being taken to the return or to
\* the sleep; the lock is released on return
CriticalSection(c) ==
  LET now == clock
      q == DropOld(dq, now)
  IN IF HasRoom(q, rate)
       THEN /\ dq' = Append(q, now)
            /\ acq_log' = Append(acq_log, now)
            /\ lock_holder' = None
            /\ lpc' = [lpc EXCEPT ![c] = "returned"]
            /\ UNCHANGED wake_at
       ELSE IF WaitFor(q, now) > 0
         THEN /\ dq' = q
              /\ lock_holder' = c
              /\ lpc' = [lpc EXCEPT ![c] = "sleep"]
              /\ wake_at' = [wake_at EXCEPT ![c] = now + WaitFor(q, now)]
              /\ UNCHANGED acq_log
         ELSE /\ dq' = Append(DropOld(q, now), now)
              /\ acq_log' = Append(acq_log, now)
              /\ lock_holder' = None
              /\ lpc' = [lpc EXCEPT ![c] = "returned"]
              /\ UNCHANGED wake_at

\* variant: the unlimited branch records the acquisition
ReturnUnlimitedRecorded(c) ==
  /\ lpc' = [lpc EXCEPT ![c] = "returned"]
  /\ dq' = Append(dq, clock)
  /\ acq_log' = Append(acq_log, clock)
  /\ UNCHANGED <<lock_holder, lock_waiters, wake_at>>

\* `if self.rate <= 0: return`
ReturnUnlimited(c) ==
  /\ lpc' = [lpc EXCEPT ![c] = "returned"]
  /\ UNCHANGED <<dq, lock_holder, lock_waiters, wake_at, acq_log>>

\* acquire() is called: unlimited when rate <= 0; else the lock is taken at once when
\* it is free and nobody waits for it, and queued for otherwise
AcquireCall(c) ==
  /\ lpc[c] = "idle"
  /\ IF rate <= 0
       THEN ReturnUnlimited(c)
       ELSE IF lock_holder = None /\ lock_waiters = <<>>
         THEN /\ CriticalSection(c)
              /\ UNCHANGED lock_waiters
         ELSE /\ lock_waiters' = Append(lock_waiters, c)
              /\ lpc' = [lpc EXCEPT ![c] = "lock"]
              /\ UNCHANGED <<dq, lock_holder, wake_at, acq_log>>
  /\ UNCHANGED <<rate, clock>>
  /\ UNCHANGED notLimiter

\* variant: the released lock wakes any of its waiters
LockGrantedAnyWaiter(c) ==
  /\ lpc[c] = "lock"
  /\ lock_holder = None
  /\ \E i \in 1..Len(lock_waiters) :
       /\ lock_waiters[i] = c
       /\ lock_waiters' = SubSeq(lock_waiters, 1, i - 1)
                             \o SubSeq(lock_waiters, i + 1, Len(lock_waiters))
  /\ CriticalSection(c)
  /\ UNCHANGED <<rate, clock>>
  /\ UNCHANGED notLimiter

\* the released lock wakes its first waiter, which enters the critical section
LockGranted(c) ==
  /\ lpc[c] = "lock"
  /\ lock_holder = None
  /\ lock_waiters # <<>>
  /\ Head(lock_waiters) = c
  /\ lock_waiters' = Tail(lock_waiters)
  /\ CriticalSection(c)
  /\ UNCHANGED <<rate, clock>>
  /\ UNCHANGED notLimiter

\* asyncio.sleep(wait_for) returns, no earlier than due: the acquisition is recorded
\* and the lock released
SleepReturns(c) ==
  /\ lpc[c] = "sleep"
  /\ clock >= wake_at[c]
  /\ LET now2 == clock
     IN /\ dq' = Append(DropOld(dq, now2), now2)
        /\ acq_log' = Append(acq_log, now2)
  /\ lock_holder' = None
  /\ lpc' = [lpc EXCEPT ![c] = "returned"]
  /\ UNCHANGED <<rate, clock, lock_waiters, wake_at>>
  /\ UNCHANGED notLimiter

\* the clock advances, up to MaxClock and for as long as a sleeper is not yet due;
\* acquisitions a full second old leave the observer's log
Tick ==
  /\ clock < MaxClock \/ \E c \in Callers : lpc[c] = "sleep" /\ clock < wake_at[c]
  /\ clock' = clock + 1
  /\ acq_log' = DropOld(acq_log, clock + 1)
  /\ UNCHANGED <<rate, dq, lock_holder, lock_waiters, lpc, wake_at>>
  /\ UNCHANGED notLimiter

LimiterNext ==
  \/ \E c \in Callers :
       \/ AcquireCall(c)
       \/ LockGranted(c)
       \/ SleepReturns(c)
  \/ Tick

\* ------------------------------------------------------------------------
\* run_basic_probes
\* ------------------------------------------------------------------------
EndpointIdx == 0..(NumEndpoints - 1)

\* how an endpoint url fares against the scope: in scope, host out of scope, or
\* host in scope and path blocked by the path policy
ScopeClasses == {"ok", "host_out", "path_blocked"}

\* an AuthScheme: `cred` stands for its token/cookie (0: as configured, n > 0: the
\* n-th credential obtained by a flow)
Identity(n, t) == [name |-> n, type |-> t, refresh_token |-> FALSE, cred |-> 0]

\* the auth.yml documents of the runs; identity names are free text
AuthConfigs ==
  { <<>>,
    <<Identity("alice", "oauth2")>>,
    <<Identity("a.b", "bearer"), Identity("a b", "form_login")>> }

\* the characters of the identity names
NameChars(name) ==
  CASE name = "alice" -> <<"a", "l", "i", "c", "e">>
    [] name = "a.b" -> <<"a", ".", "b">>
    [] name = "a b" -> <<"a", " ", "b">>
    [] name = "noauth" -> <<"n", "o", "a", "u", "t", "h">>

\* str.isalnum over the characters in use
Alnum == {"a", "b", "c", "e", "h", "i", "l", "n", "o", "t", "u"}

\* how a target answers the attempts of one request: attempt i gets script[i], the
\* attempts after the last entry get the last entry
TargetScripts == {<<200>>, <<401>>, <<TransportFailure>>}

Max(a, b) == IF a >= b THEN a ELSE b
Min(a, b) == IF a <= b THEN a ELSE b

\* f with key k set to v
Put(f, k, v) == [x \in (DOMAIN f) \cup {k} |-> IF x = k THEN v ELSE f[x]]

\* the attempt loop of HttpClient.request run against a script: n attempts made so
\* far, resp the last status received
RECURSIVE AttemptLoop(_, _, _)
AttemptLoop(script, n, resp) ==
  LET n1 == n + 1
      o == script[Min(n1, Len(script))]
      resp1 == IF o = TransportFailure THEN resp ELSE o
      again == IF o = TransportFailure THEN RetryTransport(n1) ELSE RetryStatus(o, n1)
  IN IF again THEN AttemptLoop(script, n1, resp1) ELSE FinalSnapshot(resp1, n1)

\* the snapshot HttpClient.request returns for a target behaving as `script`
RequestResult(script, b, made) ==
  IF BudgetAvailable(b, made) THEN AttemptLoop(script, 0, None)
  ELSE ErrorSnapshot("budget_exceeded", 0)

\* self._requests_made after one call of HttpClient.request
MadeAfterRequest(b, made) ==
  IF BudgetAvailable(b, made) THEN BudgetAfterConsume(b, made) ELSE made

\* _resp_status
RespStatus(snapshot) == IF snapshot.kind = "response" THEN snapshot.status ELSE None

\* _resp_size (the body size itself is not modelled)
RespSize(snapshot) == IF snapshot.kind = "response" THEN "bytes" ELSE "null"

\* variant: the error of a snapshot is not reported
ErrorMsgDropped(snapshot) == "null"

\* _error_msg (the message text is not modelled)
ErrorMsg(snapshot) == IF snapshot.kind = "error" THEN snapshot.errtype ELSE "null"

\* VariantResult(stat, sz, err)
VariantResult(snapshot) ==
  [status |-> RespStatus(snapshot), size |-> RespSize(snapshot), error |-> ErrorMsg(snapshot)]

\* is_url_in_scope
IsUrlInScope(class) == class # "host_out"

\* is_url_path_allowed
IsUrlPathAllowed(class) == class # "path_blocked"

\* variant: only the host scope is asserted
AssertUrlsInScopeHostOnly(n, classes) ==
  IF \E e \in 0..(n - 1) : ~IsUrlInScope(classes[e]) THEN "host_scope" ELSE "ok"

\* assert_urls_in_scope: "ok", or the ValueError it raises
AssertUrlsInScope(n, classes) ==
  IF \E e \in 0..(n - 1) : ~IsUrlInScope(classes[e]) THEN "host_scope"
  ELSE IF \E e \in 0..(n - 1) : ~IsUrlPathAllowed(classes[e]) THEN "path_policy"
  ELSE "ok"

\* variant: every configured identity is used whatever use_all_identities says
SelectedSchemesAll(cfg, all) == cfg

\* the identities the run uses
SelectedSchemes(cfg, all) == IF ~all /\ cfg # <<>> THEN <<cfg[1]>> ELSE cfg

\* planned_requests
\* variant: the plan computed without the test for an empty identity list
PlannedRequestsUnconditional(n, k) == n * (1 + Max(1, k))

\* planned_requests
PlannedRequests(n, k) == n * (IF k > 0 THEN 1 + Max(1, k) ELSE 1)

\* BATCH
BatchSize(c) == Max(1, c * BatchFactor)

\* _resolve_identity: the effective identity of scheme s once its flow succeeded
EffectiveOf(s) ==
  IF s.type = "oauth2"
    THEN [name |-> s.name, type |-> "bearer", refresh_token |-> FALSE, cred |-> 1]
  ELSE IF s.type = "form_login"
    THEN [name |-> s.name, type |-> "cookie", refresh_token |-> FALSE, cred |-> 1]
  ELSE s

\* the outcomes of the auth flow of scheme s: AuthFlowError, a credential, or (OAuth2)
\* a credential together with a refresh_token
FlowOutcomes(s) ==
  IF s.type = "oauth2" THEN {"fail", "token", "token_refresh"}
  ELSE IF s.type = "form_login" THEN {"fail", "token"}
  ELSE {"token"}

\* _safe_stem: every character that is not alphanumeric, "-" or "_" becomes "_",
\* at most StemLimit characters are kept, "_" is stripped at both ends, and an empty
\* result becomes "item"
StemChar(ch) == IF ch \in Alnum \cup {"-", "_"} THEN ch ELSE "_"

Replaced(chars) == [i \in 1..Min(Len(chars), StemLimit) |-> StemChar(chars[i])]

RECURSIVE StripLeft(_)
StripLeft(out) ==
  IF out # <<>> /\ Head(out) = "_" THEN StripLeft(Tail(out)) ELSE out

RECURSIVE StripRight(_)
StripRight(out) ==
  IF out # <<>> /\ out[Len(out)] = "_" THEN StripRight(SubSeq(out, 1, Len(out) - 1))
  ELSE out

SafeStem(name) ==
  LET out == StripRight(StripLeft(Replaced(NameChars(name))))
  IN IF out = <<>> THEN <<"i", "t", "e", "m">> ELSE out

\* write_snapshot(snapshot, path) for endpoint e and variant k (0: no identity)
Write(file, e, k, snapshot) == [file |-> file, e |-> e, k |-> k, snapshot |-> snapshot]

NoauthFile(idx) == [idx |-> idx, kind |-> "noauth", stem |-> <<>>]
AuthFile(idx, name) == [idx |-> idx, kind |-> "auth", stem |-> SafeStem(name)]

\* rows in the order they were appended
RECURSIVE InsertByIndex(_, _)
InsertByIndex(sorted, row) ==
  IF sorted = <<>> THEN <<row>>
  ELSE IF row.index < Head(sorted).index THEN <<row>> \o sorted
  ELSE <<Head(sorted)>> \o InsertByIndex(Tail(sorted), row)

RECURSIVE SortedByIndex(_)
SortedByIndex(rows) ==
  IF rows = <<>> THEN <<>>
  ELSE InsertByIndex(SortedByIndex(SubSeq(rows, 1, Len(rows) - 1)), rows[Len(rows)])

\* variant: the rows are left in completion order
SortRowsOmitted(rows) == rows

\* rows.sort(key=index)
SortRows(rows) == SortedByIndex(rows)

NoSummary == [written |-> FALSE]
NoLegacyAuth == [name |-> "null", status |-> None, size |-> "null"]

\* the locals of _probe_one before its first request
NoLocals ==
  [noauth |-> [status |-> None, size |-> "null", error |-> "null"],
   legacy_auth |-> NoLegacyAuth]

\* the names of a list of schemes
RECURSIVE NamesOf(_)
NamesOf(schemes) ==
  IF schemes = <<>> THEN <<>> ELSE <<Head(schemes).name>> \o NamesOf(Tail(schemes))

ProbeStart ==
  /\ run_pc = "start"
  /\ run_error = "none"
  /\ dirs_created = FALSE
  /\ client_state = "none"
  /\ effective_identities = <<>>
  /\ batch_start = 0
  /\ tpc = [e \in EndpointIdx |-> "none"]
  /\ tj = [e \in EndpointIdx |-> 0]
  /\ pending = [e \in EndpointIdx |-> NoSnapshot]
  /\ row_locals = [e \in EndpointIdx |-> NoLocals]
  /\ variants = [e \in EndpointIdx |-> <<>>]
  /\ files = <<>>
  /\ written = {}
  /\ legacy_rows = <<>>
  /\ matrix_rows = <<>>
  /\ summary = NoSummary
  /\ completion_order = <<>>
  /\ probe_log = <<>>

\* variant: the tasks of all remaining endpoints are created at once
TasksCreatedUnbatched(tp, start, n, size) ==
  [e \in EndpointIdx |-> IF e >= start /\ e < n THEN "noauth" ELSE tp[e]]

\* the tasks of the batch starting at `start` are created
TasksCreated(tp, start, n, size) ==
  [e \in EndpointIdx |->
     IF e >= start /\ e < start + size /\ e < n THEN "noauth" ELSE tp[e]]

\* the end of a run: rows sorted by index, client closed, summary.json written
RunFinishes(rows_l, rows_m, identities) ==
  /\ legacy_rows' = SortRows(rows_l)
  /\ matrix_rows' = SortRows(rows_m)
  /\ client_state' = "closed"
  /\ summary' = [written |-> TRUE, endpoints |-> endpoints_n,
                 auth_used |-> NamesOf(identities),
                 rows |-> SortRows(rows_l), matrix |-> SortRows(rows_m),
                 dry_run |-> FALSE, has_planned |-> FALSE, planned_requests |-> 0]
  /\ run_pc' = "returned"

\* all identities are resolved: the first batch of tasks is created (with no endpoint
\* there is no batch and the run finishes)
ProbingBegins(identities) ==
  IF endpoints_n = 0
    THEN /\ RunFinishes(<<>>, <<>>, identities)
         /\ UNCHANGED <<batch_start, tpc>>
    ELSE /\ run_pc' = "probing"
         /\ batch_start' = 0
         /\ tpc' = TasksCreated(tpc, 0, endpoints_n, BatchSize(concurrency))
         /\ client_state' = "open"
         /\ UNCHANGED <<legacy_rows, matrix_rows, summary>>

\* run_basic_probes from its call to its first suspension: the scope assertion, the
\* output directories, the choice of identities, the dry-run summary
RunStart ==
  /\ run_pc = "start"
  /\ LET verdict == AssertUrlsInScope(endpoints_n, scope_class)
         sel == SelectedSchemes(configured, use_all_identities)
     IN IF verdict # "ok"
          THEN /\ run_pc' = "raised"
               /\ run_error' = "ValueError"
               /\ UNCHANGED <<dirs_created, client_state, summary, batch_start, tpc,
                              legacy_rows, matrix_rows, effective_identities>>
          ELSE /\ dirs_created' = TRUE
               /\ UNCHANGED <<run_error, effective_identities>>
               /\ IF dry_run
                    THEN /\ summary' = [written |-> TRUE, endpoints |-> endpoints_n,
                                        auth_used |-> NamesOf(sel),
                                        rows |-> <<>>, matrix |-> <<>>,
                                        dry_run |-> TRUE, has_planned |-> TRUE,
                                        planned_requests |->
                                          PlannedRequests(endpoints_n, Len(sel))]
                         /\ run_pc' = "returned"
                         /\ UNCHANGED <<client_state, batch_start, tpc, legacy_rows,
                                        matrix_rows>>
                    ELSE IF sel = <<>>
                      THEN ProbingBegins(<<>>)
                      ELSE /\ run_pc' = "resolve"
                           /\ client_state' = "open"
                           /\ UNCHANGED <<summary, batch_start, tpc, legacy_rows,
                                          matrix_rows>>
  /\ UNCHANGED <<runInputs, configured, tj, pending, row_locals, variants, files, written,
                 completion_order,
                 probe_log, requests_made>>
  /\ UNCHANGED notProbe

\* `eff = await _resolve_identity(s)` for the next selected scheme, its flow ending
\* as `flow`; an AuthFlowError leaves run_basic_probes through `async with`
ResolveIdentity(flow) ==
  /\ run_pc = "resolve"
  /\ LET sel == SelectedSchemes(configured, use_all_identities)
         k == Len(effective_identities) + 1
     IN /\ flow \in FlowOutcomes(sel[k])
        /\ IF flow = "fail"
             THEN /\ run_pc' = "raised"
                  /\ run_error' = "AuthFlowError"
                  /\ client_state' = "closed"
                  /\ UNCHANGED <<configured, effective_identities, batch_start, tpc,
                                 legacy_rows, matrix_rows, summary>>
             ELSE /\ effective_identities' = Append(effective_identities, EffectiveOf(sel[k]))
                  /\ configured' = IF flow = "token_refresh"
                                     THEN [configured EXCEPT ![k].refresh_token = TRUE]
                                     ELSE configured
                  /\ UNCHANGED run_error
                  /\ IF k = Len(sel)
                       THEN ProbingBegins(Append(effective_identities, EffectiveOf(sel[k])))
                       ELSE UNCHANGED <<run_pc, client_state, batch_start, tpc,
                                        legacy_rows, matrix_rows, summary>>
  /\ UNCHANGED <<runInputs, dirs_created, tj, pending, row_locals, variants, files, written,
                 completion_order, probe_log, requests_made>>
  /\ UNCHANGED notProbe

\* the end of _probe_one for endpoint e: the rows are built and, through
\* as_completed, appended in completion order; the last task of a batch lets the
\* run create the next batch, or finish
TaskCompletes(e, variants_e, noauth, legacy_auth) ==
  LET legacy_row == [index |-> e, noauth_status |-> noauth.status,
                     auth_name |-> legacy_auth.name, auth_status |-> legacy_auth.status,
                     noauth_size |-> IF noauth.size = "null" THEN "0" ELSE noauth.size,
                     auth_size |-> legacy_auth.size]
      matrix_row == [index |-> e, variants |-> variants_e]
      rows_l == Append(legacy_rows, legacy_row)
      rows_m == Append(matrix_rows, matrix_row)
      size == BatchSize(concurrency)
      batch == {i \in EndpointIdx :
                  i >= batch_start /\ i < batch_start + size /\ i < endpoints_n}
      done == [tpc EXCEPT ![e] = "done"]
  IN /\ completion_order' = Append(completion_order, e)
     /\ IF \E i \in batch \ {e} : tpc[i] # "done"
          THEN /\ tpc' = done
               /\ legacy_rows' = rows_l
               /\ matrix_rows' = rows_m
               /\ UNCHANGED <<batch_start, run_pc, client_state, summary>>
          ELSE IF batch_start + size < endpoints_n
            THEN /\ batch_start' = batch_start + size
                 /\ tpc' = TasksCreated(done, batch_start + size, endpoints_n, size)
                 /\ legacy_rows' = rows_l
                 /\ matrix_rows' = rows_m
                 /\ UNCHANGED <<run_pc, client_state, summary>>
            ELSE /\ tpc' = done
                 /\ RunFinishes(rows_l, rows_m, effective_identities)
                 /\ UNCHANGED batch_start

\* the observer's record of the requests made for endpoint e under identity k
\* (k = 0: without identity): the target's scripts, the statuses returned, the
\* refreshes run
LogOf(e, k) ==
  IF <<e, k>> \in DOMAIN probe_log THEN probe_log[<<e, k>>]
  ELSE [scripts |-> <<>>, statuses |-> <<>>, refreshes |-> 0]

Logged(e, k, script, snapshot) ==
  Put(probe_log, <<e, k>>,
      [LogOf(e, k) EXCEPT !.scripts = Append(@, script),
                          !.statuses = Append(@, RespStatus(snapshot))])

\* _probe_one, the no-auth request: the snapshot is written and recorded
ProbeNoAuth(e, script) ==
  /\ run_pc = "probing"
  /\ tpc[e] = "noauth"
  /\ LET snapshot == RequestResult(script, budget, requests_made)
         noauth == VariantResult(snapshot)
         variants_e == Put(<<>>, "noauth", noauth)
     IN /\ requests_made' = MadeAfterRequest(budget, requests_made)
        /\ row_locals' = [row_locals EXCEPT ![e].noauth = noauth]
        /\ probe_log' = Logged(e, 0, script, snapshot)
        /\ files' = Put(files, NoauthFile(e), snapshot)
        /\ written' = written \cup {Write(NoauthFile(e), e, 0, snapshot)}
        /\ variants' = [variants EXCEPT ![e] = variants_e]
        /\ IF effective_identities = <<>>
             THEN /\ TaskCompletes(e, variants_e, noauth, NoLegacyAuth)
                  /\ UNCHANGED tj
             ELSE /\ tpc' = [tpc EXCEPT ![e] = "auth"]
                  /\ tj' = [tj EXCEPT ![e] = 1]
                  /\ UNCHANGED <<batch_start, run_pc, client_state, summary, legacy_rows,
                                 matrix_rows, completion_order>>
  /\ UNCHANGED <<runInputs, configured, run_error, dirs_created, effective_identities,
                 pending>>
  /\ UNCHANGED notProbe

\* _authed_request_with_refresh: a 401 is refreshed when the scheme passed as
\* s_original is a dynamic one
NeedsRefresh(s_original, status) ==
  status = 401 /\ s_original.type \in {"oauth2", "form_login"}

\* the s_original argument for identity k: _probe_one passes the effective identity
\* itself (`s_original=s, resolved=s`); the signature provides for the declared
\* scheme the identity was resolved from
OriginalPassed(k) ==
  IF passes_declared THEN SelectedSchemes(configured, use_all_identities)[k]
  ELSE effective_identities[k]


\* the snapshot _authed_request_with_refresh returned for identity k is written and
\* recorded; after the last identity the task completes
PersistAuthed(e, k, snapshot) ==
  LET name == effective_identities[k].name
      result == VariantResult(snapshot)
      variants_e == Put(variants[e], name, result)
      legacy_auth == IF k = 1
                       THEN [name |-> name, status |-> result.status, size |-> result.size]
                       ELSE row_locals[e].legacy_auth
  IN /\ files' = Put(files, AuthFile(e, name), snapshot)
     /\ row_locals' = [row_locals EXCEPT ![e].legacy_auth = legacy_auth]
     /\ written' = written \cup {Write(AuthFile(e, name), e, k, snapshot)}
     /\ variants' = [variants EXCEPT ![e] = variants_e]
     /\ pending' = [pending EXCEPT ![e] = NoSnapshot]
     /\ IF k = Len(effective_identities)
          THEN /\ TaskCompletes(e, variants_e, row_locals[e].noauth, legacy_auth)
               /\ UNCHANGED tj
          ELSE /\ tpc' = [tpc EXCEPT ![e] = "auth"]
               /\ tj' = [tj EXCEPT ![e] = k + 1]
               /\ UNCHANGED <<batch_start, run_pc, client_state, summary, legacy_rows,
                              matrix_rows, completion_order>>

\* one step of _authed_request_with_refresh for the current identity of endpoint e:
\* the first request, the refresh / re-login after a 401, or the retry
AuthedStep(e, script, flow) ==
  /\ run_pc = "probing"
  /\ tpc[e] \in {"auth", "refresh", "retry"}
  /\ LET k == tj[e]
         log == LogOf(e, k)
         snapshot == RequestResult(script, budget, requests_made)
     IN CASE tpc[e] = "auth" ->
               /\ flow = "token"
               /\ requests_made' = MadeAfterRequest(budget, requests_made)
               /\ probe_log' = Logged(e, k, script, snapshot)
               /\ UNCHANGED <<configured, effective_identities, run_error>>
               /\ IF NeedsRefresh(OriginalPassed(k), RespStatus(snapshot))
                    THEN /\ tpc' = [tpc EXCEPT ![e] = "refresh"]
                         /\ pending' = [pending EXCEPT ![e] = snapshot]
                         /\ UNCHANGED <<row_locals, files, written, variants, tj, batch_start, run_pc,
                                        client_state, summary, legacy_rows, matrix_rows,
                                        completion_order>>
                    ELSE PersistAuthed(e, k, snapshot)
          [] tpc[e] = "refresh" ->
               /\ script = <<200>>
               /\ flow \in FlowOutcomes(OriginalPassed(k))
               /\ UNCHANGED <<requests_made, files, written, variants, tj, pending,
                              row_locals, batch_start,
                              summary, legacy_rows, matrix_rows, completion_order>>
               /\ IF flow = "fail"
                    THEN /\ run_pc' = "raised"
                         /\ run_error' = "AuthFlowError"
                         /\ client_state' = "closed"
                         /\ UNCHANGED <<configured, effective_identities, tpc, probe_log>>
                    ELSE /\ effective_identities' =
                              [effective_identities EXCEPT ![k].cred = @ + 1]
                         /\ configured' = IF flow = "token_refresh"
                                            THEN [configured EXCEPT ![k].refresh_token = TRUE]
                                            ELSE configured
                         /\ probe_log' = Put(probe_log, <<e, k>>,
                                             [log EXCEPT !.refreshes = @ + 1])
                         /\ tpc' = [tpc EXCEPT ![e] = "retry"]
                         /\ UNCHANGED <<run_pc, run_error, client_state>>
          [] tpc[e] = "retry" ->
               /\ flow = "token"
               /\ requests_made' = MadeAfterRequest(budget, requests_made)
               /\ probe_log' = Logged(e, k, script, snapshot)
               /\ UNCHANGED <<configured, effective_identities, run_error>>
               /\ PersistAuthed(e, k, snapshot)
  /\ UNCHANGED <<runInputs, dirs_created>>
  /\ UNCHANGED notProbe

ProbeNext ==
  \/ RunStart
  \/ \E flow \in {"fail", "token", "token_refresh"} : ResolveIdentity(flow)
  \/ \E e \in EndpointIdx, script \in TargetScripts : ProbeNoAuth(e, script)
  \/ \E e \in EndpointIdx, script \in TargetScripts,
        flow \in {"fail", "token", "token_refresh"} : AuthedStep(e, script, flow)

\* ------------------------------------------------------------------------
\* Scope predicates (config.py)
\* ------------------------------------------------------------------------
\* hostnames and host patterns are sequences of labels ("*.test" is <<"*", "test">>);
\* url paths are sequences of segments; a url is host, path and query
ApiHost == <<"api", "test">>
EvilHost == <<"evil", "test">>

Url(host, path, query) == [host |-> host, path |-> path, query |-> query]

\* _host_from_url, _path_from_url
HostFromUrl(url) == url.host
PathFromUrl(url) == url.path

\* whether sequence s ends with sequence t
EndsWith(s, t) ==
  Len(s) >= Len(t) /\ SubSeq(s, Len(s) - Len(t) + 1, Len(s)) = t

\* whether sequence s starts with sequence t
StartsWith(s, t) == Len(s) >= Len(t) /\ SubSeq(s, 1, Len(t)) = t

\* the string of a hostname or host pattern: its labels joined by "."; a string is
\* the sequence of its characters, a label of the scope documents counting as one
RECURSIVE HostString(_)
HostString(labels) ==
  IF labels = <<>> THEN <<>>
  ELSE IF Len(labels) = 1 THEN labels
  ELSE <<Head(labels), ".">> \o HostString(Tail(labels))

\* str.lower
LowerChar(c) ==
  CASE c = "A" -> "a" [] c = "D" -> "d" [] c = "E" -> "e" [] c = "M" -> "m"
    [] OTHER -> c
LowerString(str) == [i \in 1..Len(str) |-> LowerChar(str[i])]

\* s[n:]
From(str, n) == SubSeq(str, n + 1, Len(str))

\* variant: the suffix is taken without its dot (pattern[2:])
HostMatchesSuffixWithoutDot(pattern, host) ==
  LET p == LowerString(pattern)
      h == LowerString(host)
  IN  IF StartsWith(p, <<"*", ".">>)
        THEN EndsWith(h, From(p, 2))
        ELSE h = p

\* _host_matches
HostMatches(pattern, host) ==
  LET p == LowerString(pattern)
      h == LowerString(host)
  IN  IF StartsWith(p, <<"*", ".">>)
        THEN LET suffix == From(p, 1)
             IN  EndsWith(h, suffix) /\ h # From(p, 2)
        ELSE h = p

\* any_match
AnyMatch(patterns, host) ==
  \E p \in patterns : HostMatches(HostString(p), HostString(host))

\* the hosts of scope.base_urls
BaseHosts(scope) == {scope.base_urls[i] : i \in 1..Len(scope.base_urls)}

\* variant: the denied list is consulted only when nothing is allowed
HostScopeAllowedFirst(url, scope) ==
  LET host == HostFromUrl(url)
  IN IF scope.allowed # {} THEN AnyMatch(scope.allowed, host)
     ELSE ~AnyMatch(scope.denied, host) /\ host \in BaseHosts(scope)

\* is_url_in_scope
HostScope(url, scope) ==
  LET host == HostFromUrl(url)
  IN IF scope.denied # {} /\ AnyMatch(scope.denied, host) THEN FALSE
     ELSE IF scope.allowed # {} THEN AnyMatch(scope.allowed, host)
     ELSE host \in BaseHosts(scope)

\* a glob: the literal path `segs`, or everything under `segs` ("/admin/*")
Glob(segs, star) == [segs |-> segs, star |-> star]

\* _path_pattern_match for globs (fnmatch)
PathPatternMatch(path, pat) ==
  IF pat.star
    THEN Len(path) > Len(pat.segs) /\ SubSeq(path, 1, Len(pat.segs)) = pat.segs
    ELSE path = pat.segs

\* _path_allowed_by_patterns: deny first, then an empty allow list allows all
PathAllowedByPatterns(path, allow_patterns, deny_patterns) ==
  IF \E i \in 1..Len(deny_patterns) : PathPatternMatch(path, deny_patterns[i])
    THEN FALSE
  ELSE IF allow_patterns = <<>> THEN TRUE
  ELSE \E i \in 1..Len(allow_patterns) : PathPatternMatch(path, allow_patterns[i])

\* is_url_path_allowed
PathPolicyAllows(url, scope) ==
  PathAllowedByPatterns(PathFromUrl(url), scope.allow_paths, scope.deny_paths)

\* ------------------------------------------------------------------------
\* Sampler: sample_schema_value and its helpers
\* ------------------------------------------------------------------------
\* JSON values; a string is the sequence of its characters
StrV(chars) == [kind |-> "str", chars |-> chars]
NumV(n) == [kind |-> "num", n |-> n]
\* a float, held as twice its value: FloatV(3) is 1.5, FloatV(4) is 2.0
FloatV(halves) == [kind |-> "float", halves |-> halves]
BoolV(b) == [kind |-> "bool", b |-> b]
NullV == [kind |-> "null"]
\* the value of a key the dict does not have
AbsentV == [kind |-> "absent"]
ListV(items) == [kind |-> "list", items |-> items]
\* a dict: the function from its keys to their values
ObjV(fields) == [kind |-> "dict", fields |-> fields]
EmptyDict == [k \in {} |-> NullV]

\* the fixed values of the sampler
UUID ==
  <<"0", "0", "0", "0", "0", "0", "0", "0", "-", "0", "0", "0", "0", "-", "4", "0", "0",
     "0", "-", "8", "0", "0", "0", "-", "0", "0", "0", "0", "0", "0", "0", "0", "0",
     "0", "0", "0">>

EMAIL ==
  <<"u", "s", "e", "r", "@", "e", "x", "a", "m", "p", "l", "e", ".", "c", "o", "m">>

DATE ==
  <<"2", "0", "2", "4", "-", "0", "1", "-", "0", "2">>

DATETIME ==
  <<"2", "0", "2", "4", "-", "0", "1", "-", "0", "2", "T", "0", "3", ":", "0", "4", ":",
     "0", "5", "Z">>

EXAMPLE_URL ==
  <<"h", "t", "t", "p", "s", ":", "/", "/", "e", "x", "a", "m", "p", "l", "e", ".", "c",
     "o", "m">>


\* a schema key that is absent: schema.get(key) is None
Absent == -1

\* a schema object. `enum` is a list of values; `example` and `default` are a value
\* or AbsentV; `items` and `additionalProperties` hold no or one schema; `properties`
\* is the list of <<name, schema>> in document order; `required` a set of names;
\* `minimum` and `maximum` are <<>> (absent) or <<n>>
Schema(type, format, example, minLength, maxLength) ==
  [type |-> type, format |-> format, example |-> example, default |-> AbsentV,
   enum |-> <<>>, minLength |-> minLength, maxLength |-> maxLength,
   items |-> <<>>, minItems |-> Absent, maxItems |-> Absent,
   minimum |-> <<>>, maximum |-> <<>>,
   properties |-> <<>>, required |-> {}, minProperties |-> Absent,
   additionalProperties |-> "absent"]

\* {}
EmptySchema == Schema("", "", AbsentV, Absent, Absent)

ArraySchema(items, minItems, maxItems) ==
  [EmptySchema EXCEPT !.type = "array", !.items = items, !.minItems = minItems,
                      !.maxItems = maxItems]

ObjectSchema(properties, required) ==
  [EmptySchema EXCEPT !.type = "object", !.properties = properties,
                      !.required = required]

\* schema.get(key, 0)
OrZero(n) == IF n = Absent THEN 0 ELSE n

\* isinstance(v, (str, int, float)) and str(v); bool is an int
IsScalarNonEmpty(v) ==
  \/ v.kind = "str" /\ v.chars # <<>>
  \/ v.kind \in {"num", "bool"}

\* _pick_enum
PickEnum(values) ==
  LET hits == {i \in 1..Len(values) : IsScalarNonEmpty(values[i])}
  IN  IF hits # {} THEN values[CHOOSE i \in hits : \A j \in hits : i <= j]
      ELSE IF values # <<>> THEN values[1] ELSE NullV

\* _coerce_number: example, default, then `(mn + mx) / 2`, a true division whose
\* result is a float, then the bound that is present, then the fallback 1
CoerceNumber(schema) ==
  IF schema.example.kind \in {"num", "float", "bool"} THEN schema.example
  ELSE IF schema.default.kind \in {"num", "float", "bool"} THEN schema.default
  ELSE IF schema.minimum # <<>> /\ schema.maximum # <<>>
    THEN FloatV(schema.minimum[1] + schema.maximum[1])
  ELSE IF schema.minimum # <<>> THEN NumV(schema.minimum[1])
  ELSE IF schema.maximum # <<>> THEN NumV(schema.maximum[1])
  ELSE NumV(1)

\* _coerce_boolean
CoerceBoolean(schema) ==
  IF schema.example.kind = "bool" THEN schema.example
  ELSE IF schema.default.kind = "bool" THEN schema.default
  ELSE BoolV(TRUE)

\* the name hints in use, lower-cased; "name" in n; "query" in n
HintLower(n) ==
  CASE n = "ID" -> "id" [] n = "Name" -> "name" [] OTHER -> n
HintContainsName(n) == n \in {"name", "username", "first_name"}
HintContainsQuery(n) == n \in {"query", "query_text"}

\* str(v) of an enum entry; the entries in use are strings
StrOf(v) == IF v.kind = "str" THEN v.chars ELSE <<"?">>

\* _coerce_string
CoerceString(schema, name_hint) ==
  LET fmt == schema.format
      ex == schema.example
      n == HintLower(name_hint)
  IN  IF ex.kind = "str" /\ ex.chars # <<>> THEN ex.chars
      ELSE IF schema.enum # <<>> THEN StrOf(PickEnum(schema.enum))
      ELSE IF fmt = "uuid" THEN UUID
      ELSE IF fmt = "date" THEN DATE
      ELSE IF fmt \in {"date-time", "datetime", "rfc3339"} THEN DATETIME
      ELSE IF fmt = "email" THEN EMAIL
      ELSE IF fmt \in {"uri", "url"} THEN EXAMPLE_URL
      ELSE IF name_hint # "" /\ n \in {"id", "user_id", "uid"} THEN <<"1">>
      ELSE IF name_hint # "" /\ n \in {"page", "p"} THEN <<"1">>
      ELSE IF name_hint # "" /\ HintContainsName(n)
        THEN <<"a", "l", "i", "c", "e">>
      ELSE IF name_hint # "" /\ (HintContainsQuery(n) \/ n \in {"q", "search"})
        THEN <<"t", "e", "s", "t">>
      ELSE <<"1">>

\* str * k
RECURSIVE Repeat(_, _)
Repeat(str, k) == IF k <= 0 THEN <<>> ELSE str \o Repeat(str, k - 1)

\* str[:n] for n >= 0
Prefix(str, n) == SubSeq(str, 1, Min(n, Len(str)))

\* variant: minLength is not applied
ClampStringMaxOnly(result, min_len, max_len) ==
  IF max_len # Absent /\ Len(result) > max_len THEN Prefix(result, max_len)
  ELSE result

\* sample_schema_value, `if typ == "string"`: minLength, then maxLength
ClampString(result, min_len, max_len) ==
  LET r1 == IF min_len # Absent /\ Len(result) < min_len
              THEN Prefix(Repeat(result, (min_len \div Len(result)) + 1), min_len)
              ELSE result
  IN  IF max_len # Absent /\ Len(r1) > max_len THEN Prefix(r1, max_len) ELSE r1

\* sample_schema_value, `if typ == "array"`: the number of items sampled
ArrayCount(min_items, max_items) ==
  LET count == Max(min_items, 1)
  IN  IF max_items # Absent THEN Min(count, max_items) ELSE Min(count, 3)

\* the names of a properties list, and the schema declared under a name
PropNames(props) == {props[i][1] : i \in 1..Len(props)}
PropSchema(props, k) == props[CHOOSE i \in 1..Len(props) : props[i][1] = k][2]

\* "Add optional properties if we haven't met minProperties": the names added,
\* in document order, until len(out) >= min_props
RECURSIVE FillMinProps(_, _, _)
FillMinProps(props, have, min_props) ==
  IF props = <<>> THEN have
  ELSE LET k == Head(props)[1]
       IN  IF k \in have THEN FillMinProps(Tail(props), have, min_props)
           ELSE IF Cardinality(have \cup {k}) >= min_props THEN have \cup {k}
           ELSE FillMinProps(Tail(props), have \cup {k}, min_props)

\* sample_schema_value, for schemas without $ref, allOf, oneOf and anyOf
RECURSIVE SampleSchemaValue(_, _)
SampleSchemaValue(schema, name_hint) ==
  IF schema.enum # <<>> THEN PickEnum(schema.enum)
  ELSE IF schema.type = "object" THEN
    LET props == schema.properties
        required == schema.required
        first == {k \in PropNames(props) : k \in required \/ required = {}}
        names == IF Cardinality(first) < OrZero(schema.minProperties)
                   THEN FillMinProps(props, first, OrZero(schema.minProperties))
                   ELSE first
        out == [k \in names |-> SampleSchemaValue(PropSchema(props, k), k)]
    IN  IF schema.additionalProperties = "true"
          THEN ObjV(Put(Put(out, "extra_field_1", StrV(<<"v", "a", "l", "u", "e", "1">>)),
                        "extra_field_2", NumV(42)))
          ELSE ObjV(out)
  ELSE IF schema.type = "array" THEN
    LET items == IF schema.items = <<>> THEN EmptySchema ELSE schema.items[1]
        count == ArrayCount(OrZero(schema.minItems), schema.maxItems)
    IN  ListV([i \in 1..count |-> SampleSchemaValue(items, name_hint)])
  ELSE IF schema.type \in {"integer", "number"} THEN CoerceNumber(schema)
  ELSE IF schema.type = "boolean" THEN CoerceBoolean(schema)
  ELSE IF schema.type = "null" THEN NullV
  ELSE IF schema.type = "string" THEN
    StrV(ClampString(CoerceString(schema, name_hint), schema.minLength,
                     schema.maxLength))
  ELSE StrV(CoerceString(schema, name_hint))

\* ------------------------------------------------------------------------
\* OpenAPI helpers (discovery/openapi.py)
\* ------------------------------------------------------------------------
\* what a node (operation, path item, document) says under its `security` key:
\* no key, [], a non-empty list, or a value that is not a list; or the node is
\* not a dict at all
SecurityDecls == {"absent", "empty", "nonempty", "not_a_list", "not_a_dict"}

\* has_sec: "True", "False" or "None"
HasSec(node) ==
  CASE node = "not_a_dict" -> "None"
    [] node = "absent" -> "None"
    [] node = "empty" -> "False"
    [] node = "nonempty" -> "True"
    [] node = "not_a_list" -> "None"

\* variant: the document root is consulted first
OperationRequiresAuthRootFirst(doc_sec, path_sec, op_sec) ==
  IF HasSec(doc_sec) # "None" THEN HasSec(doc_sec)
  ELSE IF HasSec(path_sec) # "None" THEN HasSec(path_sec)
  ELSE HasSec(op_sec)

\* _operation_requires_auth: the first of operation, path item, document that
\* has_sec decides
OperationRequiresAuth(doc_sec, path_sec, op_sec) ==
  IF HasSec(op_sec) # "None" THEN HasSec(op_sec)
  ELSE IF HasSec(path_sec) # "None" THEN HasSec(path_sec)
  ELSE HasSec(doc_sec)

\* objects of a document that may be references: a parameter, or {"$ref": ref};
\* a ref is local ("#/components/parameters/<name>") or not
\* a parameter object: `required` is "absent", "true" or "false"; `schema` holds no
\* or one schema
Parameter(name, where, required, schema) ==
  [kind |-> "param", name |-> name, where |-> where, required |-> required,
   schema |-> schema]
\* a required parameter without schema
Param(name, where) == Parameter(name, where, "true", <<>>)
Ref(local, name) == [kind |-> "ref", local |-> local, name |-> name]
RecursionError == [kind |-> "RecursionError"]

\* _resolve_local_ref: the object the pointer names, or the reference itself
\* when the ref is not local or a segment is missing
ResolveLocalRef(components, ref) ==
  IF ~ref.local THEN ref
  ELSE IF ref.name \in DOMAIN components THEN components[ref.name]
  ELSE ref

\* _deref: follows references while the object is one; every level is one more
\* Python frame, and the interpreter raises RecursionError at its limit
RECURSIVE Deref(_, _, _)
Deref(obj, components, depth) ==
  IF obj.kind = "ref"
    THEN IF depth >= RecursionLimit THEN RecursionError
         ELSE Deref(ResolveLocalRef(components, obj), components, depth + 1)
    ELSE obj

\* ------------------------------------------------------------------------
\* load_and_map_openapi
\* ------------------------------------------------------------------------
\* method keys of a path item and the methods of the request policy
ValidMethods == {"get", "head", "post", "put", "delete", "patch", "options"}

\* str.lower / str.upper over the method names
Lower(m) ==
  CASE m = "GET" -> "get" [] m = "HEAD" -> "head" [] m = "POST" -> "post"
    [] m = "PUT" -> "put" [] m = "DELETE" -> "delete" [] m = "PATCH" -> "patch"
    [] m = "OPTIONS" -> "options"

Upper(m) ==
  CASE m = "get" -> "GET" [] m = "head" -> "HEAD" [] m = "post" -> "POST"
    [] m = "put" -> "PUT" [] m = "delete" -> "DELETE" [] m = "patch" -> "PATCH"
    [] m = "options" -> "OPTIONS"

\* variant: non_safe_methods are added whatever safe_methods_only says
AllowedMethodsAlwaysExtended(scope) ==
  {"get", "head"} \cup {Lower(m) : m \in scope.non_safe_methods}

\* allowed_methods
AllowedMethods(scope) ==
  {"get", "head"} \cup
    (IF ~scope.safe_methods_only THEN {Lower(m) : m \in scope.non_safe_methods} ELSE {})

\* an entry of a path item: an operation under a method key, or another key
\* a requestBody object: `content` is the list of <<content type, media>> in
\* document order, a media type object holding no or one schema
NoRequestBody == [kind |-> "absent"]
RequestBody(required, content) ==
  [kind |-> "dict", required |-> required, content |-> content]
Media(schema) == [schema |-> schema]

OpWithBody(key, security, parameters, requestBody) ==
  [key |-> key, is_dict |-> TRUE, security |-> security, parameters |-> parameters,
   requestBody |-> requestBody]
Op(key, security, parameters) == OpWithBody(key, security, parameters, NoRequestBody)
OtherKey(key) ==
  [key |-> key, is_dict |-> FALSE, security |-> "not_a_dict", parameters |-> <<>>,
   requestBody |-> NoRequestBody]

\* a server object: its url template as host labels, a label "{name}" being a
\* variable, and `variables` as (name, variable object) pairs in dict order
ServerVariable(enum, default) == [is_dict |-> TRUE, enum |-> enum, default |-> default]
Server(url, variables) == [is_dict |-> TRUE, url |-> url, variables |-> variables]
Plain(host) == Server(host, <<>>)
NotAServer == [is_dict |-> FALSE, url |-> <<>>, variables |-> <<>>]

\* "{" + var_name + "}"
Brace(var_name) ==
  CASE var_name = "env" -> "{env}"
    [] var_name = "region" -> "{region}"
    [] OTHER -> "{}"

\* str.replace on the labels of a url
Replace(url, old, new) == [i \in 1..Len(url) |-> IF url[i] = old THEN new ELSE url[i]]

\* the replacement text of one variable: first enum value, else default, else ""
Replacement(var_spec) ==
  IF var_spec.is_dict /\ var_spec.enum # <<>> THEN var_spec.enum[1]
  ELSE IF var_spec.is_dict /\ var_spec.default # <<>> THEN var_spec.default[1]
  ELSE ""

RECURSIVE FillVariables(_, _)
FillVariables(url, variables) ==
  IF variables = <<>> THEN url
  ELSE FillVariables(Replace(url, Brace(Head(variables)[1]), Replacement(Head(variables)[2])),
                     Tail(variables))

\* a url that is the empty string
IsEmptyUrl(url) == \A i \in 1..Len(url) : url[i] = ""

\* fill_server_variables: <<>> stands for None
FillServerVariables(server_obj) ==
  IF IsEmptyUrl(server_obj.url) THEN <<>>
  ELSE FillVariables(server_obj.url, server_obj.variables)

\* _server_urls and _path_servers: the filled urls of the dict entries of
\* `servers`, the empty ones left out
RECURSIVE ServerUrls(_)
ServerUrls(servers) ==
  IF servers = <<>> THEN <<>>
  ELSE LET s == Head(servers)
           u == IF s.is_dict THEN FillServerVariables(s) ELSE <<>>
       IN (IF IsEmptyUrl(u) THEN <<>> ELSE <<u>>) \o ServerUrls(Tail(servers))

PathItem(template, items, servers, parameters) ==
  [is_dict |-> TRUE, template |-> template, items |-> items, servers |-> servers,
   security |-> "absent", parameters |-> parameters]

\* choose_base_urls: servers[] of the document, else scope.base_urls, else none
ChooseBaseUrls(scope, server_urls) ==
  IF server_urls # <<>> THEN server_urls ELSE scope.base_urls

\* _collect_params: path-item then operation parameters, each dereferenced
RECURSIVE DerefAll(_, _)
DerefAll(params, components) ==
  IF params = <<>> THEN <<>>
  ELSE <<Deref(Head(params), components, 0)>> \o DerefAll(Tail(params), components)

CollectParams(components, path_item, op_obj) ==
  DerefAll(path_item.parameters \o op_obj.parameters, components)

\* a segment of a path: literal text, or the placeholder "{name}"
Segment(chars) == [kind |-> "lit", text |-> chars]
Lit(text) == Segment(<<text>>)
Var(name) == [kind |-> "var", text |-> <<name>>]

\* str(n) of a natural number
RECURSIVE IntStr(_)
IntStr(n) ==
  LET digit == <<"0", "1", "2", "3", "4", "5", "6", "7", "8", "9">>[(n % 10) + 1]
  IN  IF n < 10 THEN <<digit>> ELSE IntStr(n \div 10) \o <<digit>>

\* str(v) of a number that is not negative
NumStr(v) ==
  IF v.kind = "float"
    THEN IntStr(v.halves \div 2) \o <<".", IF v.halves % 2 = 0 THEN "0" ELSE "5">>
  ELSE IF v.kind = "bool"
    THEN (IF v.b THEN <<"T", "r", "u", "e">> ELSE <<"F", "a", "l", "s", "e">>)
  ELSE IntStr(v.n)

\* sample_param_value, for schemas without oneOf and anyOf
SampleParamValue(param) ==
  LET schema == IF param.schema = <<>> THEN EmptySchema ELSE param.schema[1]
      typ == schema.type
  IN  IF schema.enum # <<>> THEN StrOf(PickEnum(schema.enum))
      ELSE IF typ \in {"integer", "number"} THEN NumStr(CoerceNumber(schema))
      ELSE IF typ = "boolean"
        THEN (IF CoerceBoolean(schema).b THEN <<"t", "r", "u", "e">>
              ELSE <<"f", "a", "l", "s", "e">>)
      ELSE CoerceString(schema, param.name)

\* p.get("required", default)
IsRequired(param, default) ==
  IF param.required = "absent" THEN default ELSE param.required = "true"

\* _apply_path_template: the params are taken in order and each required path
\* parameter replaces every "{name}" still in the path
ApplyPathTemplate(template, params) ==
  [i \in 1..Len(template) |->
     LET hits == {k \in 1..Len(params) :
                    /\ params[k].kind = "param"
                    /\ params[k].where = "path"
                    /\ IsRequired(params[k], TRUE)
                    /\ template[i] = Var(params[k].name)}
     IN IF hits # {}
          THEN Segment(SampleParamValue(params[CHOOSE k \in hits : \A h \in hits : k <= h]))
          ELSE template[i]]

\* variant: only the required query parameters are appended
RECURSIVE BuildQueryRequiredOnly(_)
BuildQueryRequiredOnly(params) ==
  IF params = <<>> THEN <<>>
  ELSE (IF /\ Head(params).kind = "param"
           /\ Head(params).where = "query"
           /\ IsRequired(Head(params), FALSE)
          THEN <<<<Head(params).name, SampleParamValue(Head(params))>>>>
          ELSE <<>>) \o BuildQueryRequiredOnly(Tail(params))

\* _build_query: the list of <<name, value>> of the query parameters that are
\* required or whose schema has a default; joined by "&" after "?"
RECURSIVE BuildQuery(_)
BuildQuery(params) ==
  IF params = <<>> THEN <<>>
  ELSE LET p == Head(params)
           has_default == p.schema # <<>> /\ p.schema[1].default # AbsentV
       IN  (IF /\ p.kind = "param"
               /\ p.where = "query"
               /\ (IsRequired(p, FALSE) \/ has_default)
              THEN <<<<p.name, SampleParamValue(p)>>>>
              ELSE <<>>) \o BuildQuery(Tail(params))

\* _sample_request_body: the content types tried first, in this order
ContentTypePriority ==
  <<"application/json", "application/x-www-form-urlencoded", "multipart/form-data",
    "text/plain", "text/xml", "application/xml">>

\* what _sample_request_body returns: None, or (body_data, content_type)
NoBody == [kind |-> "none"]
Body(body_data, content_type) ==
  [kind |-> "body", body |-> body_data, content_type |-> content_type]

\* the positions of `content` under content type ct whose media declares a schema
WithSchema(content, ct) ==
  {i \in 1..Len(content) : content[i][1] = ct /\ content[i][2].schema # <<>>}

\* the schema _sample_request_body samples and its content type: the first
\* preferred content type that declares a schema, else the first content type of
\* the document that does; <<>> when there is none
ChosenMedia(rb) ==
  LET content == rb.content
      preferred == {k \in 1..Len(ContentTypePriority) :
                      WithSchema(content, ContentTypePriority[k]) # {}}
      any == {i \in 1..Len(content) : content[i][2].schema # <<>>}
  IN  IF preferred # {}
        THEN LET k == CHOOSE k \in preferred : \A h \in preferred : k <= h
                 i == CHOOSE i \in WithSchema(content, ContentTypePriority[k]) : TRUE
             IN  <<content[i]>>
      ELSE IF any # {}
        THEN <<content[CHOOSE i \in any : \A h \in any : i <= h]>>
      ELSE <<>>

\* _sample_request_body
SampleRequestBody(op_obj) ==
  LET rb == op_obj.requestBody
  IN  IF rb.kind # "dict" \/ ~rb.required THEN NoBody
      ELSE IF ChosenMedia(rb) = <<>> THEN NoBody
      ELSE Body(SampleSchemaValue(ChosenMedia(rb)[1][2].schema[1], ""),
                ChosenMedia(rb)[1][1])

\* twice the value of a number; True is 1 and False is 0
Twice(v) ==
  IF v.kind = "float" THEN v.halves
  ELSE IF v.kind = "bool" THEN (IF v.b THEN 2 ELSE 0)
  ELSE 2 * v.n

\* validate_generated_body, for schemas without $ref
RECURSIVE ValidateGeneratedBody(_, _)
ValidateGeneratedBody(body_data, schema) ==
  LET typ == schema.type
  IN  IF typ = "object" THEN
        /\ body_data.kind = "dict"
        /\ \A req_prop \in schema.required : req_prop \in DOMAIN body_data.fields
        /\ schema.additionalProperties = "false" =>
             DOMAIN body_data.fields \subseteq PropNames(schema.properties)
        /\ \A key \in DOMAIN body_data.fields \cap PropNames(schema.properties) :
             ValidateGeneratedBody(body_data.fields[key],
                                   PropSchema(schema.properties, key))
      ELSE IF typ = "array" THEN
        /\ body_data.kind = "list"
        /\ Len(body_data.items) >= OrZero(schema.minItems)
        /\ schema.maxItems # Absent => Len(body_data.items) <= schema.maxItems
        /\ \A i \in 1..Len(body_data.items) :
             ValidateGeneratedBody(body_data.items[i],
                                   IF schema.items = <<>> THEN EmptySchema
                                   ELSE schema.items[1])
      ELSE IF typ \in {"integer", "number"} THEN
        /\ body_data.kind \in {"num", "float", "bool"}
        /\ schema.minimum # <<>> => Twice(body_data) >= 2 * schema.minimum[1]
        /\ schema.maximum # <<>> => Twice(body_data) <= 2 * schema.maximum[1]
      ELSE IF typ = "boolean" THEN body_data.kind = "bool"
      ELSE IF typ = "string" THEN
        /\ body_data.kind = "str"
        /\ schema.minLength # Absent => Len(body_data.chars) >= schema.minLength
        /\ schema.maxLength # Absent => Len(body_data.chars) <= schema.maxLength
        /\ schema.enum # <<>> => \E i \in 1..Len(schema.enum) : schema.enum[i] = body_data
      ELSE IF typ = "null" THEN body_data.kind = "null"
      ELSE TRUE

\* an Endpoint; `extra` is {} or {"body": ..., "content_type": ...}
Endpoint(method, url, requires_auth, template, extra) ==
  [method |-> method, url |-> url, requires_auth |-> requires_auth,
   template |-> template, extra |-> extra]

\* the endpoints one operation contributes: one per base url that passes the host
\* scope and the path policy
RECURSIVE ForEachBase(_, _, _, _, _, _, _, _)
ForEachBase(bases, method, concrete_path, query, req_auth, template, extra, scope) ==
  IF bases = <<>> THEN <<>>
  ELSE LET full == Url(Head(bases), concrete_path, query)
           rest == ForEachBase(Tail(bases), method, concrete_path, query, req_auth,
                               template, extra, scope)
       IN IF ~HostScope(full, scope) THEN rest
          ELSE IF ~PathPolicyAllows(full, scope) THEN rest
          ELSE <<Endpoint(Upper(method), full, req_auth, template, extra)>> \o rest

\* the body of `for method, op_obj in path_item.items()` for one entry
MapEntry(doc, scope, path_item, entry, bases) ==
  IF entry.key \notin ValidMethods \/ entry.key \notin AllowedMethods(scope) THEN <<>>
  ELSE IF ~entry.is_dict THEN <<>>
  ELSE LET req_auth == OperationRequiresAuth(doc.security, path_item.security,
                                             entry.security)
           params == CollectParams(doc.components, path_item, entry)
       IN ForEachBase(bases, entry.key, ApplyPathTemplate(path_item.template, params),
                      BuildQuery(params), req_auth, path_item.template,
                      SampleRequestBody(entry), scope)

\* the warnings logged for the entries of a path item: the operations whose
\* sampled body fails validate_generated_body against the schema it was sampled from
RECURSIVE EntryWarnings(_, _, _)
EntryWarnings(scope, path_item, entries) ==
  IF entries = <<>> THEN <<>>
  ELSE LET entry == Head(entries)
           mapped == /\ entry.key \in ValidMethods
                     /\ entry.key \in AllowedMethods(scope)
                     /\ entry.is_dict
           failed == /\ mapped
                     /\ SampleRequestBody(entry) # NoBody
                     /\ ~ValidateGeneratedBody(SampleRequestBody(entry).body,
                            ChosenMedia(entry.requestBody)[1][2].schema[1])
       IN  (IF failed THEN <<<<entry.key, path_item.template>>>> ELSE <<>>)
             \o EntryWarnings(scope, path_item, Tail(entries))

RECURSIVE MapEntries(_, _, _, _, _)
MapEntries(doc, scope, path_item, entries, bases) ==
  IF entries = <<>> THEN <<>>
  ELSE MapEntry(doc, scope, path_item, Head(entries), bases)
         \o MapEntries(doc, scope, path_item, Tail(entries), bases)

\* whether dereferencing a parameter of the path item's operations hits the
\* recursion limit
RaisesRecursionError(doc, scope, path_item) ==
  \E i \in 1..Len(path_item.items) :
    LET entry == path_item.items[i]
    IN /\ entry.key \in ValidMethods \cap AllowedMethods(scope)
       /\ entry.is_dict
       /\ \E k \in 1..Len(CollectParams(doc.components, path_item, entry)) :
            CollectParams(doc.components, path_item, entry)[k] = RecursionError

Key(ep) == <<ep.method, ep.url>>

\* variant: no deduplication
DeduplicateOmitted(endpoints, seen) == endpoints

\* the deduplication loop: the first endpoint of each (method, url) is kept
RECURSIVE Deduplicate(_, _)
Deduplicate(endpoints, seen) ==
  IF endpoints = <<>> THEN <<>>
  ELSE IF Key(Head(endpoints)) \in seen THEN Deduplicate(Tail(endpoints), seen)
  ELSE <<Head(endpoints)>> \o Deduplicate(Tail(endpoints), seen \cup {Key(Head(endpoints))})

\* the documents mapped: templates, entries of a path item, servers
Templates == {<<Lit("u"), Var("id")>>, <<Lit("u"), Lit("1")>>, <<Lit("admin"), Lit("x")>>}

EntryLists ==
  { <<Op("get", "absent", <<>>)>>,
    <<Op("post", "absent", <<>>),
      Op("get", "empty",
         <<Param("q", "query"),
           Parameter("page", "query", "absent",
                     <<[Schema("integer", "", AbsentV, Absent, Absent)
                          EXCEPT !.default = NumV(1)]>>),
           Parameter("limit", "query", "false", <<>>),
           Parameter("id", "path", "absent",
                     <<Schema("integer", "", NumV(42), Absent, Absent)>>)>>)>>,
    <<OtherKey("parameters"), Op("delete", "absent", <<>>),
      Op("head", "nonempty", <<>>), Op("trace", "absent", <<>>)>> }

\* the parameters declared at path level: the path parameter where the template has
\* a variable, a required query parameter under /admin/x
ParametersOf(template) ==
  IF \E i \in 1..Len(template) : template[i].kind = "var"
    THEN <<Param("id", "path")>>
  ELSE IF template = <<Lit("admin"), Lit("x")>>
    THEN <<Parameter("search", "query", "true", <<>>)>>
  ELSE <<>>

NotADictItem ==
  [is_dict |-> FALSE, template |-> <<Lit("admin"), Lit("x")>>, items |-> <<>>,
   servers |-> <<>>, security |-> "not_a_dict", parameters |-> <<>>]

PathItems ==
  {PathItem(t, items, servers, ParametersOf(t)) :
     t \in Templates, items \in EntryLists, servers \in {<<>>, <<Plain(EvilHost)>>}}
  \cup {NotADictItem}

\* `paths` is a dict: the templates of a document are pairwise distinct
PathLists ==
  {ps \in UNION {[1..n -> PathItems] : n \in 0..MaxPaths} :
     \A i, j \in 1..Len(ps) : ps[i].template = ps[j].template => i = j}

Documents ==
  {[servers |-> servers, security |-> "nonempty", components |-> <<>>, paths |-> ps] :
     servers \in {<<>>, <<Plain(ApiHost)>>,
                 <<Plain(ApiHost), Plain(EvilHost), Plain(ApiHost)>>},
     ps \in PathLists}

\* the scope.yml files: host scope, path policy and request policy
HostScopes ==
  { [allowed |-> {<<"*", "test">>}, denied |-> {EvilHost}, base_urls |-> <<>>],
    [allowed |-> {}, denied |-> {}, base_urls |-> <<ApiHost>>] }

PathPolicies ==
  { [allow_paths |-> <<>>, deny_paths |-> <<Glob(<<Lit("admin")>>, TRUE)>>],
    [allow_paths |-> <<Glob(<<Lit("u")>>, TRUE), Glob(<<Lit("admin")>>, TRUE)>>,
     deny_paths |-> <<Glob(<<Lit("u"), Lit("1")>>, FALSE)>>] }

Scopes ==
  {[allowed |-> h.allowed, denied |-> h.denied, base_urls |-> h.base_urls,
    allow_paths |-> p.allow_paths, deny_paths |-> p.deny_paths,
    safe_methods_only |-> safe, non_safe_methods |-> {"POST"}] :
     h \in HostScopes, p \in PathPolicies, safe \in BOOLEAN}

MapperStart ==
  /\ map_pc = "start"
  /\ path_i = 1
  /\ base_urls = <<>>
  /\ endpoints_acc = <<>>
  /\ map_result = <<>>
  /\ map_error = "none"
  /\ map_run = 1
  /\ first_result = <<>>
  /\ map_warnings = <<>>

\* from the loaded document to the loop over paths: choose_base_urls raises
\* ValueError when neither the document nor the scope names a server
MapBegin ==
  /\ map_pc = "start"
  /\ LET chosen == ChooseBaseUrls(m_scope, ServerUrls(m_doc.servers))
     IN IF chosen = <<>>
          THEN /\ map_pc' = "raised"
               /\ map_error' = "ValueError"
               /\ UNCHANGED base_urls
          ELSE /\ map_pc' = "paths"
               /\ base_urls' = chosen
               /\ UNCHANGED map_error
  /\ UNCHANGED <<m_doc, m_scope, path_i, endpoints_acc, map_result, map_run,
                 first_result, map_warnings>>
  /\ UNCHANGED notMapper

\* one iteration of `for raw_path, path_item in paths.items()`
MapPathItem ==
  /\ map_pc = "paths"
  /\ path_i <= Len(m_doc.paths)
  /\ LET path_item == m_doc.paths[path_i]
         path_servers == ServerUrls(path_item.servers)
         base_for_path == IF path_servers # <<>> THEN path_servers ELSE base_urls
     IN IF ~path_item.is_dict
          THEN /\ path_i' = path_i + 1
               /\ UNCHANGED <<map_pc, map_error, endpoints_acc, map_warnings>>
        ELSE IF RaisesRecursionError(m_doc, m_scope, path_item)
          THEN /\ map_pc' = "raised"
               /\ map_error' = "RecursionError"
               /\ UNCHANGED <<path_i, endpoints_acc, map_warnings>>
        ELSE /\ endpoints_acc' = endpoints_acc \o
                  MapEntries(m_doc, m_scope, path_item, path_item.items, base_for_path)
             /\ map_warnings' = map_warnings \o
                  EntryWarnings(m_scope, path_item, path_item.items)
             /\ path_i' = path_i + 1
             /\ UNCHANGED <<map_pc, map_error>>
  /\ UNCHANGED <<m_doc, m_scope, base_urls, map_result, map_run, first_result>>
  /\ UNCHANGED notMapper

\* the deduplication loop and the return of the EndpointSet
MapReturns ==
  /\ map_pc = "paths"
  /\ path_i > Len(m_doc.paths)
  /\ map_result' = Deduplicate(endpoints_acc, {})
  /\ map_pc' = "returned"
  /\ UNCHANGED <<m_doc, m_scope, path_i, base_urls, endpoints_acc, map_error, map_run,
                 first_result, map_warnings>>
  /\ UNCHANGED notMapper

\* the same document is mapped a second time with the same scope
MapAgain ==
  /\ map_pc = "returned"
  /\ map_run = 1
  /\ first_result' = map_result
  /\ map_run' = 2
  /\ map_pc' = "start"
  /\ path_i' = 1
  /\ base_urls' = <<>>
  /\ endpoints_acc' = <<>>
  /\ map_result' = <<>>
  /\ map_warnings' = <<>>
  /\ UNCHANGED <<m_doc, m_scope, map_error>>
  /\ UNCHANGED notMapper

MapperNext ==
  \/ MapBegin
  \/ MapPathItem
  \/ MapReturns
  \/ MapAgain

\* ------------------------------------------------------------------------
\* _operation_requires_auth and _deref applied to given inputs
\* ------------------------------------------------------------------------
SecurityStart ==
  /\ sec_result = "unset"

\* req_auth = _operation_requires_auth(doc, path_item, op_obj)
ApplyRequiresAuth ==
  /\ sec_result = "unset"
  /\ sec_result' = OperationRequiresAuth(sec_nodes.doc, sec_nodes.path_item, sec_nodes.op)
  /\ UNCHANGED sec_nodes
  /\ UNCHANGED notSecurity

\* the objects under #/components/parameters and the objects dereferenced
RefNames == {"A", "B"}
RefObjects ==
  {Param("id", "path"), Ref(TRUE, "A"), Ref(TRUE, "B"), Ref(TRUE, "missing"),
   Ref(FALSE, "other.yaml")}

Unset == [kind |-> "unset"]

DerefStart ==
  /\ ref_result = Unset

\* p2 = _deref(p, doc)
ApplyDeref ==
  /\ ref_result = Unset
  /\ ref_result' = Deref(ref_obj, ref_components, 0)
  /\ UNCHANGED <<ref_obj, ref_components>>
  /\ UNCHANGED notDeref

\* ------------------------------------------------------------------------
\* Specifications
\* ------------------------------------------------------------------------
\* a client and a limiter nobody calls
ClientParked ==
  /\ budget = 0
  /\ concurrency = 1
  /\ per_host_concurrency = 1
  /\ ClientInit

LimiterParked ==
  /\ rate = 0
  /\ LimiterStart

\* a probe run nobody starts
ProbeParked ==
  /\ endpoints_n = 0
  /\ scope_class = [e \in EndpointIdx |-> "ok"]
  /\ dry_run = FALSE
  /\ use_all_identities = TRUE
  /\ passes_declared = FALSE
  /\ configured = <<>>
  /\ ProbeStart

\* no document is mapped, no function applied
MapperParked ==
  /\ m_doc = [servers |-> <<>>, security |-> "absent", components |-> <<>>,
              paths |-> <<>>]
  /\ m_scope = [allowed |-> {}, denied |-> {}, base_urls |-> <<ApiHost>>,
                allow_paths |-> <<>>, deny_paths |-> <<>>,
                safe_methods_only |-> TRUE, non_safe_methods |-> {}]
  /\ MapperStart

SecurityParked ==
  /\ sec_nodes = [doc |-> "absent", path_item |-> "absent", op |-> "absent"]
  /\ SecurityStart

DerefParked ==
  /\ ref_components = <<>>
  /\ ref_obj = Param("id", "path")
  /\ DerefStart

\* ------------------------------------------------------------------------
\* request headers: assembly in HttpClient.request, redaction in the snapshot
\* ------------------------------------------------------------------------
\* header values and cookie strings are the sequences of their parts
Redacted == <<"<redacted>">>
NoString == <<>>
NoHeader == ""
EmptyHeaders == [k \in {} |-> NoString]

\* dict.update
Update(d, u) ==
  [k \in (DOMAIN d) \cup (DOMAIN u) |-> IF k \in DOMAIN u THEN u[k] ELSE d[k]]

\* str.lower over the header names used
HeaderLower(k) ==
  CASE k = "Authorization" -> "authorization"
    [] k = "X-Api-Key" -> "x-api-key"
    [] k = "Api-Key" -> "api-key"
    [] k = "X-Auth-Token" -> "x-auth-token"
    [] k = "X-Token" -> "x-token"
    [] k = "Cookie" -> "cookie"
    [] k = "Accept" -> "accept"
    [] OTHER -> k

\* lk.startswith("x-auth") over the lower-cased header names used
StartsWithXAuth(lk) == lk \in {"x-auth-token"}

\* _redact_headers
RedactHeaders(headers) ==
  [k \in DOMAIN headers |->
     LET lk == HeaderLower(k)
     IN  IF lk \in {"authorization", "proxy-authorization", "cookie"} THEN Redacted
         ELSE IF lk \in {"x-api-key", "api-key"} \/ StartsWithXAuth(lk) THEN Redacted
         ELSE headers[k]]

\* _auth_headers_for_scheme
AuthHeadersForScheme(s) ==
  LET name == IF s.header # NoHeader THEN s.header ELSE "Authorization"
  IN  CASE s.type = "bearer" -> (name :> <<"Bearer ", s.token>>)
        [] s.type = "header" -> (name :> <<s.token>>)
        [] s.type = "cookie" -> EmptyHeaders
        [] s.type = "basic" ->
             ("Authorization" :> <<"Basic ", "b64(", s.username, ":", s.password, ")">>)
        [] OTHER -> EmptyHeaders

\* _merge_cookies
MergeCookies(cookie1, cookie2) ==
  IF cookie1 # NoString /\ cookie2 # NoString THEN cookie1 \o <<"; ">> \o cookie2
  ELSE IF cookie1 # NoString THEN cookie1 ELSE cookie2

\* HttpClient.request: "Build headers and cookies", "Inject auth"
RequestHeaders(headers, cookie, auth_scheme) ==
  LET hdrs == Update(headers, AuthHeadersForScheme(auth_scheme))
      cookies_hdr == IF auth_scheme.type = "cookie"
                     THEN MergeCookies(cookie, auth_scheme.cookie) ELSE cookie
      existing == IF "Cookie" \in DOMAIN hdrs THEN hdrs["Cookie"] ELSE NoString
  IN  IF cookies_hdr # NoString
      THEN Put(hdrs, "Cookie", MergeCookies(existing, cookies_hdr))
      ELSE hdrs

\* HttpClient._snapshot_response: the "headers" of the recorded request
SnapshotRequestHeaders(headers, cookie, auth_scheme) ==
  RedactHeaders(RequestHeaders(headers, cookie, auth_scheme))

Credentials == {"s3cr3t-1", "s3cr3t-2"}
OtherCredential(c) == CHOOSE d \in Credentials : d # c
HeaderNames == {"Authorization", "X-Api-Key", "Api-Key", "X-Auth-Token", "X-Token"}

\* an identity of the given type carrying credential c
StaticIdentity(type, header, c) ==
  [type |-> type, header |-> header,
   token |-> IF type \in {"bearer", "header"} THEN c ELSE "",
   cookie |-> IF type = "cookie" THEN <<"session=", c>> ELSE NoString,
   username |-> IF type = "basic" THEN "user" ELSE "",
   password |-> IF type = "basic" THEN c ELSE ""]

\* the identities AuthScheme._validate_by_type admits
Identities ==
  { StaticIdentity(t, h, c) : t \in {"bearer", "basic", "cookie"},
                        h \in HeaderNames \cup {NoHeader}, c \in Credentials }
  \cup { StaticIdentity("header", h, c) : h \in HeaderNames, c \in Credentials }

\* the same identity with the other credential value
WithOtherCredential(s) ==
  StaticIdentity(s.type, s.header,
           OtherCredential(CASE s.type = "cookie" -> s.cookie[2]
                             [] s.type = "basic" -> s.password
                             [] OTHER -> s.token))

ExplicitHeaders ==
  { EmptyHeaders, ("Accept" :> <<"application/json">>), ("Cookie" :> <<"lang=en">>) }
ExplicitCookies == { NoString, <<"theme=dark">> }

HeadersStart ==
  /\ hdr_pc = "start"
  /\ hdr_recorded = EmptyHeaders

\* one successful request: the snapshot records the redacted request headers
RecordRequestHeaders ==
  /\ hdr_pc = "start"
  /\ hdr_recorded' = SnapshotRequestHeaders(hdr_headers, hdr_cookie, hdr_scheme)
  /\ hdr_pc' = "recorded"
  /\ UNCHANGED <<hdr_scheme, hdr_headers, hdr_cookie>>
  /\ UNCHANGED notHeaders

HeadersParked ==
  /\ hdr_scheme = StaticIdentity("bearer", NoHeader, "s3cr3t-1")
  /\ hdr_headers = EmptyHeaders
  /\ hdr_cookie = NoString
  /\ HeadersStart

\* ------------------------------------------------------------------------
\* _host_matches over strings
\* ------------------------------------------------------------------------
MaxHostLen == 5
HostChars == {"a", "A", "d", "."}

\* the strings over HostChars of length 1..MaxHostLen
HostStrings == UNION {[1..n -> HostChars] : n \in 1..MaxHostLen}

HostPatterns ==
  { <<"*", ".", "d">>, <<"*", ".", "D">>, <<"*", ".", "a", ".", "d">>,
    <<"d">>, <<"D">>, <<"a", ".", "d">> }

PyBool(b) == IF b THEN "True" ELSE "False"

HostMatchStart == hm_result = "unset"

ApplyHostMatches ==
  /\ hm_result = "unset"
  /\ hm_result' = PyBool(HostMatches(hm_pattern, hm_host))
  /\ UNCHANGED <<hm_pattern, hm_host>>
  /\ UNCHANGED notHostMatch

HostMatchParked ==
  /\ hm_pattern = <<"d">>
  /\ hm_host = <<"d">>
  /\ hm_result = "unset"

\* the schemas and name hints sample_schema_value is applied to
MaxLength == 11
MaxItems == 4
Lengths == {Absent} \cup 0..MaxLength
Counts == {Absent} \cup 0..MaxItems

StringSchemas ==
  {Schema("string", fmt, ex, mn, mx) :
     fmt \in {"", "uuid", "date", "email"},
     ex \in {AbsentV, StrV(<<"a", "b", "c">>)}, mn \in Lengths, mx \in Lengths}

ItemSchemas ==
  { <<>>, <<Schema("string", "", AbsentV, 2, Absent)>>,
    <<Schema("integer", "", AbsentV, Absent, Absent)>> }

ArraySchemas ==
  {ArraySchema(items, mn, mx) : items \in ItemSchemas, mn \in Counts, mx \in Counts}

NameHints == {"", "id", "Name", "q"}

SamplerStart == smp_result = Unset

ApplySampleSchemaValue ==
  /\ smp_result = Unset
  /\ smp_result' = SampleSchemaValue(smp_schema, smp_hint)
  /\ UNCHANGED <<smp_schema, smp_hint>>
  /\ UNCHANGED notSampler

\* a schema with an `allOf` list: `base` holds its other keys, `allOf` its members,
\* each <<schema>> for a dict and <<>> for a value that is not a dict
AllOfSchema(base, members) == [base |-> base, allOf |-> members]

\* sample_schema_value, for a schema with a non-empty `allOf` and without $ref:
\* the first member that is a dict builds temp_schema = {**schema, "properties":
\* merged, "type": ...} and returns the sample of it. temp_schema keeps the `allOf`
\* key of schema, so every level is one more Python frame and the interpreter
\* raises RecursionError at its limit
RECURSIVE SampleAllOf(_, _, _)
SampleAllOf(schema, name_hint, depth) ==
  LET dicts == {i \in 1..Len(schema.allOf) : schema.allOf[i] # <<>>}
  IN  IF schema.base.enum # <<>> THEN PickEnum(schema.base.enum)
      ELSE IF dicts = {} THEN SampleSchemaValue(schema.base, name_hint)
      ELSE LET sub_schema == schema.allOf[CHOOSE i \in dicts : \A j \in dicts : i <= j][1]
               temp_schema ==
                 [schema EXCEPT !.base.properties = sub_schema.properties,
                                !.base.type = IF sub_schema.type # "" THEN sub_schema.type
                                              ELSE schema.base.type]
           IN  IF depth >= RecursionLimit THEN RecursionError
               ELSE SampleAllOf(temp_schema, name_hint, depth + 1)

ApplySampleAllOf ==
  /\ smp_result = Unset
  /\ smp_result' = SampleAllOf(smp_schema, smp_hint, 0)
  /\ UNCHANGED <<smp_schema, smp_hint>>
  /\ UNCHANGED notSampler

\* the members and the schemas with allOf that sample_schema_value is applied to
MaxMembers == 2

MemberChoices ==
  { <<>>,
    <<ObjectSchema(<< <<"a", Schema("string", "", AbsentV, Absent, Absent)>> >>, {})>>,
    <<ObjectSchema(<< <<"b", Schema("integer", "", AbsentV, Absent, Absent)>> >>, {"b"})>>,
    <<[EmptySchema EXCEPT
         !.properties = << <<"a", Schema("boolean", "", AbsentV, Absent, Absent)>> >>]>> }

AllOfBases ==
  { EmptySchema,
    [EmptySchema EXCEPT !.enum = <<StrV(<<"x">>)>>],
    ObjectSchema(<< <<"c", Schema("string", "uuid", AbsentV, Absent, Absent)>> >>, {}) }

AllOfSchemas ==
  {AllOfSchema(base, members) :
     base \in AllOfBases,
     members \in UNION {[1..n -> MemberChoices] : n \in 1..MaxMembers}}

\* the number, string-enum, object and plain schemas the sampler and the validator
\* are applied to
MaxBound == 3
NumberBounds == {<<>>} \cup {<<n>> : n \in 0..MaxBound}

NumberSchemas ==
  {[Schema(t, "", AbsentV, Absent, Absent) EXCEPT !.minimum = mn, !.maximum = mx] :
     t \in {"integer", "number"}, mn \in NumberBounds, mx \in NumberBounds}

EnumSchemas ==
  {[Schema("string", "", AbsentV, mn, mx) EXCEPT !.enum = enum] :
     enum \in { <<StrV(<<"a">>)>>, <<StrV(<<"a", "b", "c">>), StrV(<<"a">>)>> },
     mn \in {Absent, 1}, mx \in {Absent, 1}}

PropertyLists ==
  { <<>>,
    << <<"a", Schema("string", "", AbsentV, 2, Absent)>> >>,
    << <<"a", Schema("string", "", AbsentV, 2, Absent)>>,
       <<"b", [Schema("integer", "", AbsentV, Absent, Absent)
                 EXCEPT !.minimum = <<1>>, !.maximum = <<3>>]>> >> }

ObjectSchemas ==
  {[ObjectSchema(props, required) EXCEPT !.minProperties = mp,
                                         !.additionalProperties = ap] :
     props \in PropertyLists, required \in {{}, {"a"}, {"b"}, {"x"}},
     mp \in {Absent, 2}, ap \in {"absent", "true", "false"}}

PlainSchemas ==
  { Schema("boolean", "", AbsentV, Absent, Absent),
    Schema("null", "", AbsentV, Absent, Absent) }

SamplerParked ==
  /\ smp_schema = EmptySchema
  /\ smp_hint = ""
  /\ smp_result = Unset

\* ------------------------------------------------------------------------
\* Loading the OpenAPI source (discovery/openapi.py, _load_spec)
\* ------------------------------------------------------------------------
\* src.lower().startswith(("http://", "https://"))
IsRemote(src) ==
  CASE src = "spec.json" -> FALSE
    [] src = "https://api.test/openapi.json" -> TRUE
    [] src = "HTTP://api.test/openapi.yaml" -> TRUE

\* the kinds of value a parser returns; "error" stands for its parse exception
ValueKinds == {"dict", "list", "str", "int", "bool", "null"}

\* reading the text: client.get + raise_for_status, or Path.read_text
LoadRead ==
  /\ ld_pc = "start"
  /\ IF ld_fetch = "ok"
       THEN /\ ld_pc' = "read"
            /\ UNCHANGED <<ld_error, ld_where>>
       ELSE /\ ld_pc' = "raised"
            /\ ld_error' = IF IsRemote(ld_src) THEN "HTTPStatusError" ELSE "FileNotFoundError"
            /\ ld_where' = "_load_spec"
  /\ UNCHANGED <<ld_src, ld_fetch, ld_text, ld_doc>>
  /\ UNCHANGED notLoader

\* "try JSON first, then YAML": what json.loads returns is returned as it is,
\* what yaml.safe_load returns is returned when it is a dict
LoadParse ==
  /\ ld_pc = "read"
  /\ IF ld_text.json # "error"
       THEN /\ ld_doc' = ld_text.json
            /\ ld_pc' = "loaded"
            /\ UNCHANGED <<ld_error, ld_where>>
     ELSE IF ld_text.yaml = "error"
       THEN /\ ld_pc' = "raised"
            /\ ld_error' = "YAMLError"
            /\ ld_where' = "_load_spec"
            /\ UNCHANGED ld_doc
     ELSE IF ld_text.yaml # "dict"
       THEN /\ ld_pc' = "raised"
            /\ ld_error' = "ValueError"
            /\ ld_where' = "_load_spec"
            /\ UNCHANGED ld_doc
     ELSE /\ ld_doc' = "dict"
          /\ ld_pc' = "loaded"
          /\ UNCHANGED <<ld_error, ld_where>>
  /\ UNCHANGED <<ld_src, ld_fetch, ld_text>>
  /\ UNCHANGED notLoader

\* load_and_map_openapi goes on with _server_urls(doc), whose doc.get(...) raises
\* AttributeError on a value that is not a dict
LoadUse ==
  /\ ld_pc = "loaded"
  /\ IF ld_doc = "dict"
       THEN /\ ld_pc' = "mapping"
            /\ UNCHANGED <<ld_error, ld_where>>
       ELSE /\ ld_pc' = "raised"
            /\ ld_error' = "AttributeError"
            /\ ld_where' = "_server_urls"
  /\ UNCHANGED <<ld_src, ld_fetch, ld_text, ld_doc>>
  /\ UNCHANGED notLoader

LoaderNext ==
  \/ LoadRead
  \/ LoadParse
  \/ LoadUse

LoaderParked ==
  /\ ld_src = "spec.json"
  /\ ld_fetch = "ok"
  /\ ld_text = [json |-> "dict", yaml |-> "dict"]
  /\ ld_pc = "idle"
  /\ ld_doc = "none"
  /\ ld_error = "none"
  /\ ld_where = "none"

\* ------------------------------------------------------------------------
\* Findings from a run summary (diffing/compare.py)
\* ------------------------------------------------------------------------
\* a status that is None
NoStatus == 0

\* a row of summary.json; requires_auth is "True", "False" or "None"
Row(url, requires_auth, noauth_status, auth_status, noauth_size, auth_size) ==
  [method |-> "GET", url |-> url, requires_auth |-> requires_auth,
   noauth_status |-> noauth_status, auth_status |-> auth_status,
   noauth_size |-> noauth_size, auth_size |-> auth_size]

\* delta_size is <<>> for None
Finding(type, severity, r) ==
  [type |-> type, severity |-> severity, method |-> r.method, url |-> r.url,
   requires_auth |-> r.requires_auth, noauth_status |-> r.noauth_status,
   auth_status |-> r.auth_status,
   delta_size |-> IF r.auth_status # NoStatus /\ r.noauth_status # NoStatus
                    THEN <<r.auth_size - r.noauth_size>> ELSE <<>>]

Abs(n) == IF n < 0 THEN -n ELSE n

\* _pct_diff, as the fraction <<numerator, denominator>>
PctDiff(a, b) ==
  IF a = 0 /\ b = 0 THEN <<0, 1>> ELSE <<Abs(a - b), Max(1, Min(a, b))>>

\* fraction <= percent / 100
AtMostPercent(fraction, percent) == 100 * fraction[1] <= percent * fraction[2]

\* `t in s` for strings
Contains(s, t) == \E i \in 1..(Len(s) - Len(t) + 1) : SubSeq(s, i, i + Len(t) - 1) = t

PrivateKeys ==
  { <<"/", "m", "e">>, <<"/", "a", "d", "m", "i", "n">>,
    <<"/", "p", "r", "o", "f", "i", "l", "e">>, <<"/", "p", "r", "i", "v", "a", "t", "e">> }

\* any(key in url.lower() for key in ("/me", "/admin", "/profile", "/private"))
PrivateLooking(url) == \E key \in PrivateKeys : Contains(LowerString(url), key)

UnexpectedStatuses == {200, 201, 202, 203, 204, 206, 301, 302, 303, 307, 308}

\* _classify_row
ClassifyRow(r) ==
  LET no_s == r.noauth_status
      au_s == r.auth_status
      both_ok == au_s \in {200, 206} /\ no_s \in {200, 206}
      declared ==
        (IF no_s \in UnexpectedStatuses
           THEN <<Finding("UNEXPECTED_2XX_OR_3XX_UNAUTH", "high", r)>>
         ELSE IF no_s \notin {401, 403}
           THEN <<Finding("UNEXPECTED_STATUS_UNAUTH", "medium", r)>>
         ELSE <<>>)
        \o (IF both_ok /\ AtMostPercent(PctDiff(r.noauth_size, r.auth_size), 10)
              THEN <<Finding("POSSIBLE_CONTENT_LEAK", "medium", r)>>
              ELSE <<>>)
      undeclared ==
        (IF au_s \in {401, 403} /\ no_s \in {200, 206}
           THEN <<Finding("AUTH_REGRESSION_WITH_TOKEN", "low", r)>>
           ELSE <<>>)
        \o (IF both_ok /\ AtMostPercent(PctDiff(r.noauth_size, r.auth_size), 5)
                 /\ PrivateLooking(r.url)
              THEN <<Finding("SUSPECT_PRIVATE_ENDPOINT_OPEN", "medium", r)>>
              ELSE <<>>)
  IN  IF no_s = NoStatus THEN <<>>
      ELSE (IF r.requires_auth = "True" THEN declared ELSE <<>>)
           \o (IF r.requires_auth \in {"None", "False"} THEN undeclared ELSE <<>>)

\* the two dicts of counts, by the `field` of the findings
RECURSIVE CountBy(_, _, _)
CountBy(findings, field, counts) ==
  IF findings = <<>> THEN counts
  ELSE LET key == Head(findings)[field]
           old == IF key \in DOMAIN counts THEN counts[key] ELSE 0
       IN  CountBy(Tail(findings), field, Put(counts, key, old + 1))

NoCounts ==
  [total_endpoints |-> 0, total_findings |-> 0,
   by_type |-> [t \in {} |-> 0], by_severity |-> [t \in {} |-> 0]]

\* one iteration of `for r in rows`
AnalyzeRow ==
  /\ cl_pc = "rows"
  /\ cl_i <= Len(cl_rows)
  /\ cl_findings' = cl_findings \o ClassifyRow(cl_rows[cl_i])
  /\ cl_i' = cl_i + 1
  /\ UNCHANGED <<cl_rows, cl_pc, cl_counts>>
  /\ UNCHANGED notAnalysis

\* the counting loop and the object returned
AnalyzeReturns ==
  /\ cl_pc = "rows"
  /\ cl_i > Len(cl_rows)
  /\ cl_counts' = [total_endpoints |-> Len(cl_rows),
                   total_findings |-> Len(cl_findings),
                   by_type |-> CountBy(cl_findings, "type", [t \in {} |-> 0]),
                   by_severity |-> CountBy(cl_findings, "severity", [t \in {} |-> 0])]
  /\ cl_pc' = "returned"
  /\ UNCHANGED <<cl_rows, cl_i, cl_findings>>
  /\ UNCHANGED notAnalysis

AnalysisNext ==
  \/ AnalyzeRow
  \/ AnalyzeReturns

AnalysisParked ==
  /\ cl_rows = <<>>
  /\ cl_i = 1
  /\ cl_pc = "idle"
  /\ cl_findings = <<>>
  /\ cl_counts = NoCounts

\* ------------------------------------------------------------------------
\* The attempt loop of HttpClient.request, for any max_attempts
\* ------------------------------------------------------------------------
\* variant: max_attempts is taken as given
CoerceMaxAttemptsOmitted(n) == n

\* self.max_attempts = max(1, int(max_attempts))
CoerceMaxAttempts(n) == Max(1, n)

\* `response.status_code in RETRYABLE_STATUS and attempts < self.max_attempts`
RetryAfterStatus(status, n, max_attempts) ==
  status \in RETRYABLE_STATUS /\ n < max_attempts

\* `if attempts < self.max_attempts` of the except branch
RetryAfterFailure(n, max_attempts) == n < max_attempts

SendEvent(o) == [kind |-> "send", outcome |-> o]
BackoffEvent == [kind |-> "backoff", outcome |-> None]

\* HttpClient(...) is constructed and request() called; the budget is unlimited
RetryBegin ==
  /\ rt_pc = "new"
  /\ rt_max_attempts' = CoerceMaxAttempts(rt_configured)
  /\ rt_pc' = "loop"
  /\ UNCHANGED <<rt_configured, rt_attempts, rt_response, rt_last_exc, rt_events, rt_snap>>
  /\ UNCHANGED notRetry

\* the statuses and failures a send of the loop may end with
RetryOutcomes == {200, 404, 429, 500, 502, 503, 504, TransportFailure}

\* the loop test and, when it passes, one attempt up to its `continue` or `break`;
\* past the loop request() returns the snapshot
RetryAttempt ==
  /\ rt_pc = "loop"
  /\ IF rt_attempts < rt_max_attempts
       THEN \E o \in RetryOutcomes :
              LET n == rt_attempts + 1
                  resp == IF o = TransportFailure THEN rt_response ELSE o
                  again == IF o = TransportFailure
                             THEN RetryAfterFailure(n, rt_max_attempts)
                             ELSE RetryAfterStatus(o, n, rt_max_attempts)
              IN  /\ rt_attempts' = n
                  /\ rt_events' = Append(rt_events, SendEvent(o))
                  /\ rt_response' = resp
                  /\ rt_last_exc' = (rt_last_exc \/ o = TransportFailure)
                  /\ IF again
                       THEN /\ rt_pc' = "backoff"
                            /\ UNCHANGED rt_snap
                       ELSE /\ rt_pc' = "done"
                            /\ rt_snap' = FinalSnapshot(resp, n)
       ELSE /\ rt_pc' = "done"
            /\ rt_snap' = FinalSnapshot(rt_response, rt_attempts)
            /\ UNCHANGED <<rt_attempts, rt_events, rt_response, rt_last_exc>>
  /\ UNCHANGED <<rt_configured, rt_max_attempts>>
  /\ UNCHANGED notRetry

\* _sleep_backoff returns, `continue`
RetryBackoff ==
  /\ rt_pc = "backoff"
  /\ rt_events' = Append(rt_events, BackoffEvent)
  /\ rt_pc' = "loop"
  /\ UNCHANGED <<rt_configured, rt_max_attempts, rt_attempts, rt_response, rt_last_exc,
                 rt_snap>>
  /\ UNCHANGED notRetry

RetryNext ==
  \/ RetryBegin
  \/ RetryAttempt
  \/ RetryBackoff

RetryParked ==
  /\ rt_configured = 1
  /\ rt_max_attempts = 1
  /\ rt_pc = "idle"
  /\ rt_attempts = 0
  /\ rt_response = None
  /\ rt_last_exc = FALSE
  /\ rt_events = <<>>
  /\ rt_snap = NoSnapshot

\* ------------------------------------------------------------------------
\* _probe_one, request by request: one coroutine per endpoint, each `await
\* client.request` a send and an answer
\* ------------------------------------------------------------------------
\* variant: the request is not awaited
AfterSendNotAwaited(pc) == pc

\* `await client.request(...)`: the coroutine is suspended until the answer
AfterSend(pc) == IF pc = "request" THEN "await" ELSE "await_retry"

\* client.request is called for the variant at hand
P1Send(e) ==
  /\ p1_pc[e] \in {"request", "retry"}
  /\ p1_inflight' = [p1_inflight EXCEPT ![e] = @ + 1]
  /\ p1_events' = [p1_events EXCEPT ![e] = Append(@, <<"send", p1_j[e]>>)]
  /\ p1_pc' = [p1_pc EXCEPT ![e] = AfterSend(p1_pc[e])]
  /\ UNCHANGED <<p1_identities, p1_j, p1_snap>>
  /\ UNCHANGED notProbeOne

\* client.request returns a snapshot of status `status`; an identity request
\* answered 401 runs the flow of a dynamic s_original and is retried once
P1Receive(e, status, flow) ==
  /\ p1_pc[e] \in {"await", "await_retry"}
  /\ p1_inflight' = [p1_inflight EXCEPT ![e] = @ - 1]
  /\ p1_events' = [p1_events EXCEPT ![e] = Append(@, <<"recv", p1_j[e]>>)]
  /\ p1_snap' = [p1_snap EXCEPT ![e] = status]
  /\ IF p1_pc[e] = "await" /\ p1_j[e] > 0
        /\ NeedsRefresh(p1_identities[p1_j[e]], status)
       THEN /\ flow \in FlowOutcomes(p1_identities[p1_j[e]])
            /\ p1_pc' = [p1_pc EXCEPT ![e] = IF flow = "fail" THEN "raised" ELSE "retry"]
       ELSE /\ flow = "token"
            /\ p1_pc' = [p1_pc EXCEPT ![e] = "write"]
  /\ UNCHANGED <<p1_identities, p1_j>>
  /\ UNCHANGED notProbeOne

\* write_snapshot, then the next identity or the rows
P1Write(e) ==
  /\ p1_pc[e] = "write"
  /\ p1_events' = [p1_events EXCEPT ![e] = Append(@, <<"write", p1_j[e]>>)]
  /\ IF p1_j[e] < Len(p1_identities)
       THEN /\ p1_j' = [p1_j EXCEPT ![e] = @ + 1]
            /\ p1_pc' = [p1_pc EXCEPT ![e] = "request"]
       ELSE /\ p1_pc' = [p1_pc EXCEPT ![e] = "done"]
            /\ UNCHANGED p1_j
  /\ UNCHANGED <<p1_identities, p1_inflight, p1_snap>>
  /\ UNCHANGED notProbeOne

ProbeOneNext ==
  \/ \E e \in EndpointIdx : P1Send(e)
  \/ \E e \in EndpointIdx, status \in {200, 401, TransportFailure},
        flow \in {"fail", "token", "token_refresh"} : P1Receive(e, status, flow)
  \/ \E e \in EndpointIdx : P1Write(e)

ProbeOneParked ==
  /\ p1_identities = <<>>
  /\ p1_pc = [e \in EndpointIdx |-> "done"]
  /\ p1_j = [e \in EndpointIdx |-> 0]
  /\ p1_inflight = [e \in EndpointIdx |-> 0]
  /\ p1_snap = [e \in EndpointIdx |-> None]
  /\ p1_events = [e \in EndpointIdx |-> <<>>]

\* ------------------------------------------------------------------------
\* lightweight_discover (discovery/crawl.py): its workers share `fetched` and q
\* ------------------------------------------------------------------------
\* `for _ in range(4)`
NumWorkers == 4
Workers == 1..NumWorkers

\* the seeds of n base urls: "/", "/robots.txt" and "/sitemap.xml" of each
RECURSIVE Seeds(_)
Seeds(n) == IF n = 0 THEN <<>> ELSE Seeds(n - 1) \o <<"page", "robots", "sitemap">>

\* `while fetched < budget`
CrawlCheck(w) ==
  /\ cw_pc[w] = "check"
  /\ cw_pc' = [cw_pc EXCEPT ![w] = IF cw_fetched < cw_budget THEN "get" ELSE "exited"]
  /\ UNCHANGED <<cw_budget, cw_fetched, cw_queue, cw_unseen, cw_url>>
  /\ UNCHANGED notCrawl

\* `await asyncio.wait_for(q.get(), timeout=0.2)` hands over the first url
CrawlGet(w) ==
  /\ cw_pc[w] = "get"
  /\ cw_queue # <<>>
  /\ cw_url' = [cw_url EXCEPT ![w] = Head(cw_queue)]
  /\ cw_queue' = Tail(cw_queue)
  /\ cw_pc' = [cw_pc EXCEPT ![w] = "fetch"]
  /\ UNCHANGED <<cw_budget, cw_fetched, cw_unseen>>
  /\ UNCHANGED notCrawl

\* the queue stayed empty for the timeout: asyncio.TimeoutError, the worker returns
CrawlTimeout(w) ==
  /\ cw_pc[w] = "get"
  /\ cw_queue = <<>>
  /\ cw_pc' = [cw_pc EXCEPT ![w] = "exited"]
  /\ UNCHANGED <<cw_budget, cw_fetched, cw_queue, cw_unseen, cw_url>>
  /\ UNCHANGED notCrawl

\* `if fetched + q.qsize() < budget` for each of n new links, in turn
RECURSIVE PutLinks(_, _, _, _)
PutLinks(queue, n, made, limit) ==
  IF n = 0 THEN queue
  ELSE PutLinks(IF made + Len(queue) < limit THEN Append(queue, "page") ELSE queue,
                n - 1, made, limit)

\* n sitemaps named by robots.txt are queued
RECURSIVE PutSitemaps(_, _)
PutSitemaps(queue, n) ==
  IF n = 0 THEN queue ELSE PutSitemaps(Append(queue, "sitemap"), n - 1)

\* `await client.get(url)` returns or raises; a response is counted, whatever
\* `fetched` has become since the worker tested it, and parsed: a page brings n new
\* links, robots.txt names n new sitemaps
CrawlFetch(w, ok, n) ==
  /\ cw_pc[w] = "fetch"
  /\ cw_pc' = [cw_pc EXCEPT ![w] = "check"]
  /\ cw_url' = [cw_url EXCEPT ![w] = "none"]
  /\ IF ~ok
       THEN /\ n = 0
            /\ UNCHANGED <<cw_fetched, cw_queue, cw_unseen>>
       ELSE /\ cw_fetched' = cw_fetched + 1
            /\ CASE cw_url[w] = "page" ->
                      /\ n <= cw_unseen.links
                      /\ cw_unseen' = [cw_unseen EXCEPT !.links = @ - n]
                      /\ cw_queue' = PutLinks(cw_queue, n, cw_fetched + 1, cw_budget)
                 [] cw_url[w] = "robots" ->
                      /\ n <= cw_unseen.sitemaps
                      /\ cw_unseen' = [cw_unseen EXCEPT !.sitemaps = @ - n]
                      /\ cw_queue' = PutSitemaps(cw_queue, n)
                 [] OTHER ->
                      /\ n = 0
                      /\ UNCHANGED <<cw_queue, cw_unseen>>
  /\ UNCHANGED cw_budget
  /\ UNCHANGED notCrawl

\* the site: bases, budgets, and the links and sitemaps to be found
MaxBases == 1
MaxBudget == 2
MaxFound == 1

CrawlNext ==
  \E w \in Workers :
    \/ CrawlCheck(w)
    \/ CrawlGet(w)
    \/ CrawlTimeout(w)
    \/ \E ok \in BOOLEAN, n \in 0..MaxFound : CrawlFetch(w, ok, n)

CrawlParked ==
  /\ cw_budget = 0
  /\ cw_fetched = 0
  /\ cw_queue = <<>>
  /\ cw_unseen = [links |-> 0, sitemaps |-> 0]
  /\ cw_pc = [w \in Workers |-> "exited"]
  /\ cw_url = [w \in Workers |-> "none"]

DiscoveryParked ==
  /\ MapperParked
  /\ SecurityParked
  /\ DerefParked
  /\ HeadersParked
  /\ HostMatchParked
  /\ SamplerParked
  /\ LoaderParked
  /\ AnalysisParked
  /\ RetryParked
  /\ ProbeOneParked
  /\ CrawlParked

\* HttpClient.request under concurrent callers
Init ==
  /\ budget \in {0, HardBudget}
  /\ concurrency \in 1..MaxConcurrency
  /\ per_host_concurrency \in 1..MaxPerHostConcurrency
  /\ ClientInit
  /\ LimiterParked
  /\ ProbeParked
  /\ DiscoveryParked

Next == ClientNext

Spec == Init /\ [][Next]_vars

\* calls that contend for the gates (one slot per host, one or MaxConcurrency slots
\* in the global gate, no budget) under the scheduling of the event loop: a
\* semaphore that stays free wakes a waiter, every sleep ends, the limiter lets the
\* caller through and every send returns or fails, so that some call that is under
\* way takes its next step
InitFair ==
  /\ budget = 0
  /\ concurrency \in {1, MaxConcurrency}
  /\ per_host_concurrency = 1
  /\ ClientInit
  /\ LimiterParked
  /\ ProbeParked
  /\ DiscoveryParked

SpecFair ==
  InitFair /\ [][Next]_vars /\ WF_vars(\E r \in Requests : RequestProgress(r))

\* AsyncRateLimiter.acquire under concurrent callers; `self.rate = max(0, int(rate))`
\* for the rates given to the constructor, a negative one among them
InitLimiter ==
  /\ rate \in {Max(0, r) : r \in (-1)..MaxRate}
  /\ LimiterStart
  /\ ClientParked
  /\ ProbeParked
  /\ DiscoveryParked

SpecLimiter == InitLimiter /\ [][LimiterNext]_vars

\* the callers of a limiter with rate > 0, fresh or just used by an earlier caller,
\* under the scheduling of the event loop: time passes, a sleep that is due returns,
\* and the released asyncio.Lock wakes its first waiter
InitLimiterFair ==
  /\ rate \in 1..MaxRate
  /\ clock = 0
  /\ dq \in {<<>>, <<0>>}
  /\ acq_log = dq
  /\ lock_holder = None
  /\ lock_waiters = <<>>
  /\ lpc = [c \in Callers |-> "idle"]
  /\ wake_at = [c \in Callers |-> 0]
  /\ ClientParked
  /\ ProbeParked
  /\ DiscoveryParked

SpecLimiterFair ==
  /\ InitLimiterFair
  /\ [][LimiterNext]_vars
  /\ WF_vars(Tick)
  /\ WF_vars(\E c \in Callers : LockGranted(c) \/ SleepReturns(c))

\* run_basic_probes; a RequestPolicy built without validation may carry
\* concurrency = 0, which makes BATCH 1
InitProbe ==
  /\ endpoints_n \in 0..NumEndpoints
  /\ scope_class \in [EndpointIdx -> ScopeClasses]
  /\ \A e \in EndpointIdx : e >= endpoints_n => scope_class[e] = "ok"
  /\ dry_run \in BOOLEAN
  /\ use_all_identities \in BOOLEAN
  /\ passes_declared = FALSE
  /\ configured \in AuthConfigs
  /\ concurrency \in {0, 1}
  /\ per_host_concurrency = 1
  /\ budget = 0
  /\ ClientInit
  /\ LimiterParked
  /\ ProbeStart
  /\ DiscoveryParked

SpecProbe == InitProbe /\ [][ProbeNext]_vars

\* auth.yml documents whose identity names are free text, "noauth" among them
MatrixConfigs ==
  { <<>>,
    <<Identity("noauth", "bearer")>>,
    <<Identity("alice", "bearer"), Identity("a.b", "cookie")>>,
    <<Identity("alice", "header"), Identity("noauth", "basic")>> }

\* runs of run_basic_probes over these documents
InitMatrix ==
  /\ endpoints_n \in 1..NumEndpoints
  /\ scope_class = [e \in EndpointIdx |-> "ok"]
  /\ dry_run = FALSE
  /\ use_all_identities \in BOOLEAN
  /\ passes_declared = FALSE
  /\ configured \in MatrixConfigs
  /\ concurrency = 1
  /\ per_host_concurrency = 1
  /\ budget = 0
  /\ ClientInit
  /\ LimiterParked
  /\ ProbeStart
  /\ DiscoveryParked

SpecMatrix == InitMatrix /\ [][ProbeNext]_vars

\* auth.yml documents over every identity type, static and dynamic
ResolveConfigs ==
  { <<>>,
    <<Identity("alice", "header"), Identity("a.b", "oauth2")>>,
    <<Identity("alice", "basic"), Identity("a.b", "form_login")>>,
    <<Identity("a.b", "cookie"), Identity("alice", "bearer")>>,
    <<Identity("alice", "oauth2"), Identity("a.b", "form_login")>> }

\* runs of run_basic_probes over these documents and one endpoint, with one or all
\* identities
InitResolve ==
  /\ endpoints_n = 1
  /\ scope_class = [e \in EndpointIdx |-> "ok"]
  /\ dry_run = FALSE
  /\ use_all_identities \in BOOLEAN
  /\ passes_declared = FALSE
  /\ configured \in ResolveConfigs
  /\ concurrency = 1
  /\ per_host_concurrency = 1
  /\ budget = 0
  /\ ClientInit
  /\ LimiterParked
  /\ ProbeStart
  /\ DiscoveryParked

SpecResolve == InitResolve /\ [][ProbeNext]_vars

\* concurrent endpoint tasks whose _authed_request_with_refresh calls carry the
\* declared oauth2 / form_login scheme as s_original, as its signature provides
InitRefresh ==
  /\ endpoints_n \in 1..NumEndpoints
  /\ scope_class = [e \in EndpointIdx |-> "ok"]
  /\ dry_run = FALSE
  /\ use_all_identities = TRUE
  /\ passes_declared = TRUE
  /\ configured \in {c \in AuthConfigs :
                       \E k \in 1..Len(c) : c[k].type \in {"oauth2", "form_login"}}
  /\ concurrency = 1
  /\ per_host_concurrency = 1
  /\ budget = 0
  /\ ClientInit
  /\ LimiterParked
  /\ ProbeStart
  /\ DiscoveryParked

SpecRefresh == InitRefresh /\ [][ProbeNext]_vars

\* the request headers recorded for every identity, header name and credential
InitHeaders ==
  /\ hdr_scheme \in Identities
  /\ hdr_headers \in ExplicitHeaders
  /\ hdr_cookie \in ExplicitCookies
  /\ HeadersStart
  /\ MapperParked
  /\ SecurityParked
  /\ DerefParked
  /\ ClientParked
  /\ LimiterParked
  /\ ProbeParked
  /\ HostMatchParked
  /\ SamplerParked
  /\ LoaderParked
  /\ AnalysisParked
  /\ RetryParked
  /\ ProbeOneParked
  /\ CrawlParked

SpecHeaders == InitHeaders /\ [][RecordRequestHeaders]_vars

\* _host_matches over the patterns and the host strings
InitHostMatch ==
  /\ hm_pattern \in HostPatterns
  /\ hm_host \in HostStrings
  /\ HostMatchStart
  /\ MapperParked
  /\ SecurityParked
  /\ DerefParked
  /\ HeadersParked
  /\ ClientParked
  /\ LimiterParked
  /\ ProbeParked
  /\ SamplerParked
  /\ LoaderParked
  /\ AnalysisParked
  /\ RetryParked
  /\ ProbeOneParked
  /\ CrawlParked

SpecHostMatch == InitHostMatch /\ [][ApplyHostMatches]_vars

\* sample_schema_value over string and array schemas and name hints
InitSampler ==
  /\ smp_schema \in StringSchemas \cup ArraySchemas
  /\ smp_hint \in NameHints
  /\ SamplerStart
  /\ MapperParked
  /\ SecurityParked
  /\ DerefParked
  /\ HeadersParked
  /\ HostMatchParked
  /\ ClientParked
  /\ LimiterParked
  /\ ProbeParked
  /\ LoaderParked
  /\ AnalysisParked
  /\ RetryParked
  /\ ProbeOneParked
  /\ CrawlParked

SpecSampler == InitSampler /\ [][ApplySampleSchemaValue]_vars

\* the request bodies of the operations mapped under SpecBodies
BodySchemas ==
  { ObjectSchema(<< <<"name", Schema("string", "", AbsentV, Absent, Absent)>> >>,
                 {"name"}),
    ObjectSchema(<< <<"name", Schema("string", "", AbsentV, Absent, Absent)>>,
                    <<"id", Schema("integer", "", AbsentV, Absent, Absent)>> >>,
                 {"name"}),
    ObjectSchema(<< <<"id", Schema("integer", "", AbsentV, Absent, Absent)>> >>,
                 {"id", "name"}),
    Schema("string", "", AbsentV, 3, Absent) }

Contents ==
  { <<>>, << <<"application/json", Media(<<>>)>> >> }
  \cup { << <<"application/json", Media(<<sch>>)>> >> : sch \in BodySchemas }
  \cup { << <<"application/vnd.items", Media(<<sch>>)>> >> : sch \in BodySchemas }
  \cup { << <<"text/plain", Media(<<Schema("string", "", AbsentV, 3, Absent)>>)>>,
            <<"application/json", Media(<<sch>>)>> >> : sch \in BodySchemas }

RequestBodies ==
  {NoRequestBody} \cup {RequestBody(required, c) : required \in BOOLEAN, c \in Contents}

\* documents with the path /items: a post operation with a request body and a get
BodyDocuments ==
  {[servers |-> <<Plain(ApiHost)>>, security |-> "absent", components |-> <<>>,
    paths |-> <<PathItem(<<Lit("items")>>,
                         <<OpWithBody("post", "absent", <<>>, rb),
                           Op("get", "absent", <<>>)>>,
                         <<>>, <<>>)>>] : rb \in RequestBodies}

\* load_and_map_openapi over the documents with request bodies
InitBodies ==
  /\ m_doc \in BodyDocuments
  /\ m_scope \in Scopes
  /\ MapperStart
  /\ SecurityParked
  /\ DerefParked
  /\ ClientParked
  /\ LimiterParked
  /\ ProbeParked
  /\ HeadersParked
  /\ HostMatchParked
  /\ SamplerParked
  /\ LoaderParked
  /\ AnalysisParked
  /\ RetryParked
  /\ ProbeOneParked
  /\ CrawlParked

SpecBodies == InitBodies /\ [][MapperNext]_vars

\* documents whose servers are url templates with variables, at document level
\* and at path level
EnvServer ==
  Server(<<"{env}", "test">>, << <<"env", ServerVariable(<<"api", "beta">>, <<"prod">>)>> >>)
RegionServer ==
  Server(<<"{region}", "api", "test">>, << <<"region", ServerVariable(<<>>, <<"eu">>)>> >>)
BareServer ==
  Server(<<"{env}", "api", "test">>, << <<"env", ServerVariable(<<>>, <<>>)>> >>)
TwoVariableServer ==
  Server(<<"{region}", "{env}", "test">>,
         << <<"env", ServerVariable(<<"api">>, <<>>)>>,
            <<"region", [is_dict |-> FALSE, enum |-> <<>>, default |-> <<>>]>> >>)
EmptyUrlServer == Server(<<>>, <<>>)

ServerPathItems ==
  {PathItem(t, <<Op("get", "absent", <<>>)>>, servers, <<>>) :
     t \in {<<Lit("u"), Lit("1")>>, <<Lit("admin"), Lit("x")>>},
     servers \in {<<>>, <<EnvServer>>, <<NotAServer, EmptyUrlServer>>,
                  <<RegionServer, BareServer>>}}

ServerDocuments ==
  {[servers |-> servers, security |-> "absent", components |-> <<>>, paths |-> ps] :
     servers \in {<<>>, <<RegionServer>>, <<TwoVariableServer, NotAServer>>},
     ps \in {ps \in UNION {[1..n -> ServerPathItems] : n \in 1..2} :
               \A i, j \in 1..Len(ps) : ps[i].template = ps[j].template => i = j}}

InitServers ==
  /\ m_doc \in ServerDocuments
  /\ m_scope \in Scopes
  /\ MapperStart
  /\ SecurityParked
  /\ DerefParked
  /\ ClientParked
  /\ LimiterParked
  /\ ProbeParked
  /\ HeadersParked
  /\ HostMatchParked
  /\ SamplerParked
  /\ LoaderParked
  /\ AnalysisParked
  /\ RetryParked
  /\ ProbeOneParked
  /\ CrawlParked

SpecServers == InitServers /\ [][MapperNext]_vars

\* the sources loaded: local and remote, readable or not, and texts by what the
\* two parsers make of them (a text json.loads accepts is read the same by YAML)
LoaderSources == {"spec.json", "https://api.test/openapi.json", "HTTP://api.test/openapi.yaml"}

LoaderTexts ==
  {[json |-> k, yaml |-> k] : k \in ValueKinds}
  \cup {[json |-> "error", yaml |-> k] : k \in ValueKinds \cup {"error"}}

InitLoader ==
  /\ ld_src \in LoaderSources
  /\ ld_fetch \in {"ok", "fails"}
  /\ ld_text \in LoaderTexts
  /\ ld_pc = "start"
  /\ ld_doc = "none"
  /\ ld_error = "none"
  /\ ld_where = "none"
  /\ ClientParked
  /\ LimiterParked
  /\ ProbeParked
  /\ MapperParked
  /\ SecurityParked
  /\ DerefParked
  /\ HeadersParked
  /\ HostMatchParked
  /\ SamplerParked
  /\ AnalysisParked
  /\ RetryParked
  /\ ProbeOneParked
  /\ CrawlParked

SpecLoader == InitLoader /\ [][LoaderNext]_vars

\* the summaries analysed: every single row over the statuses, sizes and urls, and
\* the lists of up to MaxRows of a few of them
MaxRows == 3

RowUrls ==
  { <<"/", "M", "e">>, <<"/", "u">>, <<"/", "m", "e", "t">>,
    <<"/", "x", "/", "A", "d", "m", "i", "n">> }

AllRows ==
  {Row(url, ra, no_s, au_s, no_sz, au_sz) :
     url \in RowUrls, ra \in {"True", "False", "None"},
     no_s \in {NoStatus, 200, 204, 206, 302, 304, 401, 403, 500},
     au_s \in {NoStatus, 200, 206, 403},
     no_sz \in {0, 100}, au_sz \in {0, 105, 106, 110, 111}}

FewRows ==
  { Row(<<"/", "M", "e">>, "True", 200, 200, 100, 110),
    Row(<<"/", "u">>, "True", 401, 200, 100, 111),
    Row(<<"/", "M", "e">>, "None", 200, 200, 100, 105),
    Row(<<"/", "u">>, "False", 200, 403, 0, 0),
    Row(<<"/", "u">>, "True", 500, 200, 100, 105) }

Summaries ==
  {<<r>> : r \in AllRows} \cup UNION {[1..n -> FewRows] : n \in 0..MaxRows}

InitAnalysis ==
  /\ cl_rows \in Summaries
  /\ cl_i = 1
  /\ cl_pc = "rows"
  /\ cl_findings = <<>>
  /\ cl_counts = NoCounts
  /\ ClientParked
  /\ LimiterParked
  /\ ProbeParked
  /\ MapperParked
  /\ SecurityParked
  /\ DerefParked
  /\ HeadersParked
  /\ HostMatchParked
  /\ SamplerParked
  /\ LoaderParked
  /\ RetryParked
  /\ ProbeOneParked
  /\ CrawlParked

SpecAnalysis == InitAnalysis /\ [][AnalysisNext]_vars

\* one request of a client constructed with max_attempts from -1 to MaxConfigured
MaxConfigured == 3

InitRetry ==
  /\ rt_configured \in -1..MaxConfigured
  /\ rt_max_attempts = 0
  /\ rt_pc = "new"
  /\ rt_attempts = 0
  /\ rt_response = None
  /\ rt_last_exc = FALSE
  /\ rt_events = <<>>
  /\ rt_snap = NoSnapshot
  /\ ClientParked
  /\ LimiterParked
  /\ ProbeParked
  /\ MapperParked
  /\ SecurityParked
  /\ DerefParked
  /\ HeadersParked
  /\ HostMatchParked
  /\ SamplerParked
  /\ LoaderParked
  /\ AnalysisParked
  /\ ProbeOneParked
  /\ CrawlParked

SpecRetry == InitRetry /\ [][RetryNext]_vars

\* the tasks of one batch, each running _probe_one over the effective identities
InitProbeOne ==
  /\ \E cfg \in AuthConfigs, all \in BOOLEAN :
       p1_identities = [k \in 1..Len(SelectedSchemes(cfg, all)) |->
                          EffectiveOf(SelectedSchemes(cfg, all)[k])]
  /\ p1_pc = [e \in EndpointIdx |-> "request"]
  /\ p1_j = [e \in EndpointIdx |-> 0]
  /\ p1_inflight = [e \in EndpointIdx |-> 0]
  /\ p1_snap = [e \in EndpointIdx |-> None]
  /\ p1_events = [e \in EndpointIdx |-> <<>>]
  /\ ClientParked
  /\ LimiterParked
  /\ ProbeParked
  /\ MapperParked
  /\ SecurityParked
  /\ DerefParked
  /\ HeadersParked
  /\ HostMatchParked
  /\ SamplerParked
  /\ LoaderParked
  /\ AnalysisParked
  /\ RetryParked
  /\ CrawlParked

SpecProbeOne == InitProbeOne /\ [][ProbeOneNext]_vars

\* sample_schema_value over the schemas with allOf
InitAllOf ==
  /\ smp_schema \in AllOfSchemas
  /\ smp_hint \in {"", "id"}
  /\ SamplerStart
  /\ MapperParked
  /\ SecurityParked
  /\ DerefParked
  /\ HeadersParked
  /\ HostMatchParked
  /\ ClientParked
  /\ LimiterParked
  /\ ProbeParked
  /\ LoaderParked
  /\ AnalysisParked
  /\ RetryParked
  /\ ProbeOneParked
  /\ CrawlParked

SpecAllOf == InitAllOf /\ [][ApplySampleAllOf]_vars

\* sample_schema_value over the schemas built from the keywords the validator checks
InitAgree ==
  /\ smp_schema \in StringSchemas \cup EnumSchemas \cup ArraySchemas \cup NumberSchemas
                      \cup ObjectSchemas \cup PlainSchemas
  /\ smp_hint = ""
  /\ SamplerStart
  /\ MapperParked
  /\ SecurityParked
  /\ DerefParked
  /\ HeadersParked
  /\ HostMatchParked
  /\ ClientParked
  /\ LimiterParked
  /\ ProbeParked
  /\ LoaderParked
  /\ AnalysisParked
  /\ RetryParked
  /\ ProbeOneParked
  /\ CrawlParked

SpecAgree == InitAgree /\ [][ApplySampleSchemaValue]_vars

\* sample_schema_value over the integer and number schemas
InitNumbers ==
  /\ smp_schema \in NumberSchemas
  /\ smp_hint \in NameHints
  /\ SamplerStart
  /\ MapperParked
  /\ SecurityParked
  /\ DerefParked
  /\ HeadersParked
  /\ HostMatchParked
  /\ ClientParked
  /\ LimiterParked
  /\ ProbeParked
  /\ LoaderParked
  /\ AnalysisParked
  /\ RetryParked
  /\ ProbeOneParked
  /\ CrawlParked

SpecNumbers == InitNumbers /\ [][ApplySampleSchemaValue]_vars

\* lightweight_discover after the seeds were queued and the workers created
InitCrawl ==
  /\ cw_budget \in 0..MaxBudget
  /\ cw_fetched = 0
  /\ \E n \in 1..MaxBases : cw_queue = Seeds(n)
  /\ cw_unseen \in [links : 0..MaxFound, sitemaps : 0..MaxFound]
  /\ cw_pc = [w \in Workers |-> "check"]
  /\ cw_url = [w \in Workers |-> "none"]
  /\ ClientParked
  /\ LimiterParked
  /\ ProbeParked
  /\ MapperParked
  /\ SecurityParked
  /\ DerefParked
  /\ HeadersParked
  /\ HostMatchParked
  /\ SamplerParked
  /\ LoaderParked
  /\ AnalysisParked
  /\ RetryParked
  /\ ProbeOneParked

SpecCrawl == InitCrawl /\ [][CrawlNext]_vars

\* the same under the scheduling of the event loop: every worker takes its next step
SpecCrawlFair ==
  /\ InitCrawl
  /\ [][CrawlNext]_vars
  /\ \A w \in Workers :
       WF_vars(\/ CrawlCheck(w) \/ CrawlGet(w) \/ CrawlTimeout(w)
               \/ \E ok \in BOOLEAN, n \in 0..MaxFound : CrawlFetch(w, ok, n))

\* load_and_map_openapi over the documents and scopes, each mapped twice
InitMapper ==
  /\ m_doc \in Documents
  /\ m_scope \in Scopes
  /\ MapperStart
  /\ SecurityParked
  /\ DerefParked
  /\ ClientParked
  /\ LimiterParked
  /\ ProbeParked
  /\ HeadersParked
  /\ HostMatchParked
  /\ SamplerParked
  /\ LoaderParked
  /\ AnalysisParked
  /\ RetryParked
  /\ ProbeOneParked
  /\ CrawlParked

SpecMapper == InitMapper /\ [][MapperNext]_vars

\* _operation_requires_auth over every combination of declarations
InitSecurity ==
  /\ sec_nodes \in [doc : SecurityDecls \ {"not_a_dict"},
                     path_item : SecurityDecls \ {"not_a_dict"},
                     op : SecurityDecls \ {"not_a_dict"}]
  /\ SecurityStart
  /\ MapperParked
  /\ DerefParked
  /\ ClientParked
  /\ LimiterParked
  /\ ProbeParked
  /\ HeadersParked
  /\ HostMatchParked
  /\ SamplerParked
  /\ LoaderParked
  /\ AnalysisParked
  /\ RetryParked
  /\ ProbeOneParked
  /\ CrawlParked

SpecSecurity == InitSecurity /\ [][ApplyRequiresAuth]_vars

\* _deref over the objects and the tables of components
InitDeref ==
  /\ ref_components \in [RefNames -> RefObjects]
  /\ ref_obj \in RefObjects
  /\ DerefStart
  /\ MapperParked
  /\ SecurityParked
  /\ ClientParked
  /\ LimiterParked
  /\ ProbeParked
  /\ HeadersParked
  /\ HostMatchParked
  /\ SamplerParked
  /\ LoaderParked
  /\ AnalysisParked
  /\ RetryParked
  /\ ProbeOneParked
  /\ CrawlParked

SpecDeref == InitDeref /\ [][ApplyDeref]_vars

\* ------------------------------------------------------------------------
\* Properties of HttpClient.request (Spec)
\* ------------------------------------------------------------------------
\* the call has passed the budget gate
Admitted(r) == rpc[r] # "idle" /\ snap[r].errtype # "budget_exceeded"
\* the call was refused by the budget gate
Refused(r) == rpc[r] = "done" /\ snap[r] = ErrorSnapshot("budget_exceeded", 0)
\* the call is inside its attempt sequence
InAttemptSequence(r) == rpc[r] \in {"jitter", "limiter", "send", "backoff"}
\* the call holds the global semaphore
HoldsGlobal(r) == rpc[r] = "acq_host" \/ InAttemptSequence(r)

RECURSIVE SumLen(_, _)
SumLen(f, S) ==
  IF S = {} THEN 0
  ELSE LET x == CHOOSE y \in S : TRUE IN Len(f[x]) + SumLen(f, S \ {x})

\* every send performed so far, over all calls
TotalSends == SumLen(outcomes, Requests)

C1_State ==
  budget > 0 =>
    /\ requests_made <= budget
    /\ Cardinality({r \in Requests : Admitted(r)}) = requests_made
    /\ \A r \in Requests :
         rpc[r] # "idle" /\ ~Admitted(r) =>
           /\ Refused(r)
           /\ gates[r] = NoGates
           /\ outcomes[r] = <<>>

C1_Step ==
  /\ requests_made' >= requests_made
  /\ \A r \in Requests :
       (budget > 0 /\ requests_made >= budget /\ rpc[r] = "idle" /\ rpc'[r] # "idle") =>
         /\ snap'[r] = ErrorSnapshot("budget_exceeded", 0)
         /\ rpc'[r] = "done"
         /\ UNCHANGED <<requests_made, sem_global, sem_per_host, gates, outcomes>>

\* C1: with hard_request_budget = K > 0 at most K calls pass the budget gate (the
\* counter equals the number of admitted calls, never exceeds K and never
\* decreases); a call made once K are admitted returns the budget_exceeded error
\* snapshot with attempts = 0, having touched no semaphore, no limiter and no send.
C1_BudgetGate == [](C1_State) /\ [][C1_Step]_vars

C1_Witness ==
  /\ budget > 0
  /\ requests_made = budget
  /\ \E r \in Requests : Refused(r)
  /\ \E r \in Requests : rpc[r] = "done" /\ snap[r].kind = "response"

\* C2: with budget K > 0 the total number of HTTP sends of a run, retries
\* included, never exceeds K.
C2_SendsWithinBudget == budget > 0 => TotalSends <= budget

\* C4: the calls inside their attempt sequence number at most `concurrency`, and at
\* most `per_host_concurrency` per hostname; such a call holds both semaphores
\* (acquired once, not yet released), a call that has ended has released each
\* exactly once, and the semaphore values account for exactly the holders.
C4_Gates ==
  /\ Cardinality({r \in Requests : InAttemptSequence(r)}) <= concurrency
  /\ \A h \in HostNames :
       Cardinality({r \in Requests : InAttemptSequence(r) /\ HostOf(r) = h})
         <= per_host_concurrency
  /\ sem_global = concurrency - Cardinality({r \in Requests : HoldsGlobal(r)})
  /\ \A h \in DOMAIN sem_per_host :
       sem_per_host[h] = per_host_concurrency
         - Cardinality({r \in Requests : InAttemptSequence(r) /\ HostOf(r) = h})
  /\ \A r \in Requests :
       /\ InAttemptSequence(r) =>
            gates[r].g_acq = 1 /\ gates[r].h_acq = 1
            /\ gates[r].g_rel = 0 /\ gates[r].h_rel = 0
       /\ (rpc[r] = "done" /\ Admitted(r)) =>
            gates[r].g_acq = 1 /\ gates[r].h_acq = 1
            /\ gates[r].g_rel = 1 /\ gates[r].h_rel = 1

C4_Witness ==
  \E r1, r2 \in Requests :
    /\ rpc[r1] = "backoff"
    /\ Len(outcomes[r1]) = 2
    /\ outcomes[r1][2] = TransportFailure
    /\ rpc[r2] \in {"acq_global", "acq_host"}
    /\ (rpc[r2] = "acq_global" => sem_global = 0)
    /\ (rpc[r2] = "acq_host" => sem_per_host[HostOf(r2)] = 0)

\* every send of the call was answered 503
Always503(r) ==
  outcomes[r] # <<>> /\ \A i \in 1..Len(outcomes[r]) : outcomes[r][i] = 503

\* C5: a call whose every send is answered 503 never sends more than max_attempts
\* times, and once it has returned it has sent exactly max_attempts times; its
\* snapshot has attempts = max_attempts and status 503, no 2xx status.
C5_Always503 ==
  \A r \in Requests :
    Always503(r) =>
      /\ Len(outcomes[r]) <= MaxAttempts
      /\ rpc[r] = "done" =>
           /\ Len(outcomes[r]) = MaxAttempts
           /\ snap[r].attempts = MaxAttempts
           /\ snap[r].kind = "response"
           /\ snap[r].status = 503
           /\ snap[r].status \notin 200..299

C5_Witness ==
  \E r \in Requests : rpc[r] = "done" /\ outcomes[r] = <<503, 503, 503>>

\* ------------------------------------------------------------------------
\* Properties of AsyncRateLimiter (SpecLimiter)
\* ------------------------------------------------------------------------
\* the timestamps of sequence q younger than one second at time `now`
Young(q, now) == {i \in 1..Len(q) : now - q[i] < Second}

\* C3: with rate R > 0, at every moment at most R acquisitions were completed
\* within the last second (so no 1-second window holds more than R), and the
\* recorded window never holds more than R timestamps younger than one second.
C3_RateWindow ==
  rate > 0 =>
    /\ Cardinality(Young(acq_log, clock)) <= rate
    /\ Cardinality(Young(dq, clock)) <= rate

C3_Witness ==
  /\ rate > 0
  /\ Len(acq_log) = rate
  /\ \E c \in Callers : lpc[c] = "returned" /\ wake_at[c] > 0 /\ acq_log[Len(acq_log)] = wake_at[c]
  /\ \E c \in Callers : lpc[c] = "sleep"

\* ------------------------------------------------------------------------
\* Properties of run_basic_probes (SpecProbe)
\* ------------------------------------------------------------------------
\* the schemes the run selected, as configured
Selected == SelectedSchemes(configured, use_all_identities)

\* the file and the variants key of endpoint e under identity k (0: no identity)
FileOf(e, k) == IF k = 0 THEN NoauthFile(e) ELSE AuthFile(e, effective_identities[k].name)
VariantKey(k) == IF k = 0 THEN "noauth" ELSE effective_identities[k].name

\* C6: for an identity declared oauth2 or form_login whose first authenticated
\* response for an endpoint is 401, the refresh / re-login runs exactly once, the
\* request is retried exactly once, and a retry answered 200 is what is persisted.
C6_RefreshOn401 ==
  \A e \in EndpointIdx : \A k \in 1..Len(effective_identities) :
    LET log == LogOf(e, k)
    IN (/\ FileOf(e, k) \in DOMAIN files
        /\ Selected[k].type \in {"oauth2", "form_login"}
        /\ log.statuses # <<>>
        /\ log.statuses[1] = 401)
       => /\ log.refreshes = 1
          /\ Len(log.statuses) = 2
          /\ (log.statuses[2] = 200 => files[FileOf(e, k)].status = 200)

\* C7: an AuthFlowError raised for one identity does not end the run.
C7_AuthFlowErrorLocal == run_error = "AuthFlowError" => run_pc # "raised"

\* every file of a run over endpoints_n endpoints and the resolved identities
AllFiles ==
  {FileOf(e, k) : e \in 0..(endpoints_n - 1), k \in 0..Len(effective_identities)}

\* C8: a request whose every attempt fails at transport level yields the
\* transport_error snapshot (attempts = max_attempts), written to the file of its
\* endpoint and variant and recorded in the endpoint's variants with a null status and the
\* error; the run goes on, and when it has returned every endpoint has a row and
\* every (endpoint, variant) its file, the matrix row carrying the null status and
\* the error.
C8_TransportErrorLocal ==
  \A e \in EndpointIdx : \A k \in 0..Len(effective_identities) :
    LET log == LogOf(e, k)
        failed == [status |-> None, size |-> "null", error |-> "transport_error"]
    IN (log.scripts # <<>> /\ log.scripts[Len(log.scripts)] = <<TransportFailure>>)
       => /\ FileOf(e, k) \in DOMAIN files
          /\ Write(FileOf(e, k), e, k, ErrorSnapshot("transport_error", MaxAttempts))
               \in written
          /\ variants[e][VariantKey(k)] = failed
          /\ run_pc \in {"probing", "returned"}
          /\ run_pc = "returned" =>
               /\ DOMAIN files = AllFiles
               /\ Len(summary.matrix) = endpoints_n
               /\ summary.matrix[e + 1].index = e
               /\ summary.matrix[e + 1].variants[VariantKey(k)] = failed
               /\ (k = 0 => summary.rows[e + 1].noauth_status = None)
               /\ (k = 1 => summary.rows[e + 1].auth_status = None)

C8_Witness ==
  /\ run_pc = "returned"
  /\ endpoints_n = 2
  /\ Len(effective_identities) = 2
  /\ LogOf(0, 1).scripts = <<(<<TransportFailure>>)>>
  /\ files[FileOf(0, 2)].status = 200
  /\ files[FileOf(1, 0)].status = 200

\* C9: when some endpoint url fails the host scope or the path policy, the run
\* (dry or not) raises before anything else happens: no directory, no client, no
\* identity resolved, no request, no snapshot, no summary.
C9_ScopeViolationAborts ==
  (\E e \in 0..(endpoints_n - 1) : scope_class[e] # "ok") =>
    /\ run_pc \in {"start", "raised"}
    /\ run_pc = "raised" => run_error = "ValueError"
    /\ effective_identities = <<>>
    /\ \A k \in 1..Len(configured) : ~configured[k].refresh_token
    /\ client_state = "none"
    /\ ~dirs_created
    /\ requests_made = 0
    /\ probe_log = <<>>
    /\ files = <<>>
    /\ ~summary.written

C9_Witness ==
  /\ run_pc = "raised"
  /\ run_error = "ValueError"
  /\ ~dry_run
  /\ configured # <<>>
  /\ endpoints_n = 2
  /\ scope_class[0] = "ok"
  /\ scope_class[1] = "path_blocked"

\* C10: after a non-dry run over N endpoints, summary.rows and summary.matrix each
\* hold exactly one row per endpoint index 0..N-1, in ascending index order.
C10_RowsSorted ==
  (run_pc = "returned" /\ ~dry_run) =>
    /\ Len(summary.rows) = endpoints_n
    /\ Len(summary.matrix) = endpoints_n
    /\ \A i \in 1..endpoints_n :
         summary.rows[i].index = i - 1 /\ summary.matrix[i].index = i - 1

C10_Witness ==
  /\ run_pc = "returned"
  /\ ~dry_run
  /\ \E i, j \in 1..Len(completion_order) :
       i < j /\ completion_order[i] > completion_order[j]

\* identity names are pairwise distinct
DistinctNames(schemes) ==
  \A i, j \in 1..Len(schemes) : schemes[i].name = schemes[j].name => i = j

\* C11: a non-dry run over N endpoints and I identities with pairwise distinct
\* names writes one snapshot file per (endpoint, variant): no file is written for
\* two different pairs, no pair is written twice, and the finished run has
\* N * (1 + I) files.
C11_OneFilePerPair ==
  DistinctNames(effective_identities) =>
    /\ \A w1, w2 \in written :
         /\ w1.file = w2.file => (w1.e = w2.e /\ w1.k = w2.k)
         /\ (w1.e = w2.e /\ w1.k = w2.k) => w1 = w2
    /\ (run_pc = "returned" /\ ~dry_run) =>
         Cardinality(DOMAIN files) = endpoints_n * (1 + Len(effective_identities))

\* C12 (as stated): a dry run reports planned_requests = endpoints x
\* (1 + max(1, identity_count)) for every identity count, zero included.
C12_PlannedAsStated ==
  (run_pc = "returned" /\ dry_run) =>
    summary.planned_requests = endpoints_n * (1 + Max(1, Len(Selected)))

\* C12: a dry run reports planned_requests = endpoints x (1 + identity_count),
\* identity_count being the number of selected identities (endpoints x 1 when no
\* identity is configured), and does no network I/O: no identity resolved, no
\* client created, no request, no snapshot, rows and matrix empty.
C12_DryRunPlan ==
  (run_pc = "returned" /\ dry_run) =>
    /\ summary.written /\ summary.dry_run
    /\ summary.planned_requests = endpoints_n * (1 + Len(Selected))
    /\ summary.auth_used = NamesOf(Selected)
    /\ summary.rows = <<>> /\ summary.matrix = <<>>
    /\ effective_identities = <<>>
    /\ \A k \in 1..Len(configured) : ~configured[k].refresh_token
    /\ client_state = "none"
    /\ requests_made = 0
    /\ probe_log = <<>>
    /\ written = {}

C12_Witness ==
  /\ run_pc = "returned"
  /\ dry_run
  /\ configured = <<>>
  /\ endpoints_n = 2
  /\ summary.planned_requests = 2

\* ------------------------------------------------------------------------
\* Properties of load_and_map_openapi (SpecMapper)
\* ------------------------------------------------------------------------
\* positions of `endpoints` holding the first endpoint of their (method, url)
FirstOccurrences ==
  {i \in 1..Len(endpoints_acc) :
     \A j \in 1..(i - 1) : Key(endpoints_acc[j]) # Key(endpoints_acc[i])}

\* the k-th of them in discovery order
KthFirst(k) ==
  CHOOSE i \in FirstOccurrences : Cardinality({j \in FirstOccurrences : j <= i}) = k

\* C13: in every mapper output each (method, url) occurs at most once, the kept
\* endpoint is the first one discovered, the order is the discovery order of the
\* first occurrences, and a second mapping of the same document with the same
\* scope returns the same sequence.
C13_DedupDeterministic ==
  map_pc = "returned" =>
    /\ \A i, j \in 1..Len(map_result) :
         Key(map_result[i]) = Key(map_result[j]) => i = j
    /\ Len(map_result) = Cardinality(FirstOccurrences)
    /\ \A k \in 1..Len(map_result) : map_result[k] = endpoints_acc[KthFirst(k)]
    /\ map_run = 2 => map_result = first_result

C13_Witness ==
  /\ map_pc = "returned"
  /\ map_run = 2
  /\ Len(map_result) >= 2
  /\ \E i, j \in 1..Len(endpoints_acc) :
       /\ i < j
       /\ Key(endpoints_acc[i]) = Key(endpoints_acc[j])
       /\ endpoints_acc[i].template # endpoints_acc[j].template

UrlOf(i, j, b) ==
  LET path_item == m_doc.paths[i]
      params == CollectParams(m_doc.components, path_item, path_item.items[j])
  IN Url(b, ApplyPathTemplate(path_item.template, params), BuildQuery(params))

BasesOf(i) ==
  IF ServerUrls(m_doc.paths[i].servers) # <<>> THEN ServerUrls(m_doc.paths[i].servers)
  ELSE base_urls

\* C15: with safe_methods_only every emitted endpoint is GET or HEAD whatever
\* non_safe_methods lists; without it every emitted method is GET, HEAD or one of
\* non_safe_methods, and in both cases every get and head operation of the
\* document is emitted for each of its urls that is in scope.
C15_MethodPolicy ==
  /\ \A k \in 1..Len(endpoints_acc) :
       LET method == endpoints_acc[k].method
       IN IF m_scope.safe_methods_only THEN method \in {"GET", "HEAD"}
          ELSE method \in {"GET", "HEAD"} \cup m_scope.non_safe_methods
  /\ map_pc = "returned" =>
       \A i \in 1..Len(m_doc.paths) :
         m_doc.paths[i].is_dict =>
           \A j \in 1..Len(m_doc.paths[i].items) : \A n \in 1..Len(BasesOf(i)) :
             LET entry == m_doc.paths[i].items[j]
                 url == UrlOf(i, j, BasesOf(i)[n])
             IN (/\ entry.key \in {"get", "head"}
                 /\ entry.is_dict
                 /\ HostScope(url, m_scope)
                 /\ PathPolicyAllows(url, m_scope))
                => \E k \in 1..Len(map_result) :
                     /\ map_result[k].url = url
                     /\ map_result[k].method = (IF entry.key = "get" THEN "GET" ELSE "HEAD")

\* a mapping with non-safe methods permitted that emitted a POST and a HEAD and
\* left out the DELETE operation of the same document
C15_Witness ==
  /\ map_pc = "returned"
  /\ ~m_scope.safe_methods_only
  /\ \E k \in 1..Len(map_result) : map_result[k].method = "POST"
  /\ \E k \in 1..Len(map_result) :
       /\ map_result[k].method = "HEAD"
       /\ \E i \in 1..Len(m_doc.paths) :
            /\ m_doc.paths[i].template = map_result[k].template
            /\ \E j \in 1..Len(m_doc.paths[i].items) :
                 m_doc.paths[i].items[j].key = "delete"

\* ------------------------------------------------------------------------
\* Properties of _operation_requires_auth (SpecSecurity) and _deref (SpecDeref)
\* ------------------------------------------------------------------------
\* the first of operation, path item, document that declares `security`
FirstDeclared ==
  IF sec_nodes.op # "absent" THEN sec_nodes.op
  ELSE IF sec_nodes.path_item # "absent" THEN sec_nodes.path_item
  ELSE sec_nodes.doc

\* C16: with `security` declared as arrays, requires_auth is decided by the first
\* of operation, path item, document root that declares the key: [] gives false,
\* a non-empty array gives true, no declaration anywhere gives unknown.
C16_FirstDeclarationWins ==
  (/\ sec_result # "unset"
   /\ \A n \in {sec_nodes.op, sec_nodes.path_item, sec_nodes.doc} :
        n \in {"absent", "empty", "nonempty"})
  => sec_result = (CASE FirstDeclared = "empty" -> "False"
                    [] FirstDeclared = "nonempty" -> "True"
                    [] FirstDeclared = "absent" -> "None")

\* operation-level `security: []` under a root that declares a non-empty security
C16_Witness ==
  /\ sec_nodes.op = "empty"
  /\ sec_nodes.path_item = "absent"
  /\ sec_nodes.doc = "nonempty"
  /\ sec_result = "False"

\* the reference a _deref call starts from is unresolved: not local, or naming no
\* object of the document
Unresolved(obj) ==
  obj.kind = "ref" /\ (~obj.local \/ obj.name \notin DOMAIN ref_components)

\* C17: dereferencing a non-local $ref, or one whose pointer has a missing
\* segment, terminates and yields the literal reference object.
C17_UnresolvedRefReturned ==
  (ref_result # Unset /\ Unresolved(ref_obj)) => ref_result = ref_obj

\* ------------------------------------------------------------------------
\* Properties of the identities of a probe run (SpecProbe)
\* ------------------------------------------------------------------------
\* C18: resolving and refreshing identities never modifies a declarative
\* identity: every configured AuthScheme keeps the fields it was loaded with.
C18_DeclaredIdentitiesUnchanged == configured \in AuthConfigs

\* the endpoint tasks inside the refresh / re-login of identity k
Refreshing(k) == {e \in EndpointIdx : tpc[e] = "refresh" /\ tj[e] = k}

C20_CredentialNeverRecorded ==
  hdr_pc = "recorded" =>
    hdr_recorded =
      SnapshotRequestHeaders(hdr_headers, hdr_cookie, WithOtherCredential(hdr_scheme))

\* ------------------------------------------------------------------------
\* Properties of _host_matches (SpecHostMatch)
\* ------------------------------------------------------------------------
\* the two strings are equal up to the case of their letters
SameIgnoringCase(x, y) ==
  /\ Len(x) = Len(y)
  /\ \A i \in 1..Len(x) : x[i] = y[i] \/ {x[i], y[i]} \in {{"a", "A"}, {"d", "D"}}

\* str is one or more non-empty labels separated by single dots
IsLabels(str) ==
  /\ str # <<>>
  /\ str[1] # "." /\ str[Len(str)] # "."
  /\ \A i \in 1..(Len(str) - 1) : ~(str[i] = "." /\ str[i + 1] = ".")

\* host is labels, a dot, then the domain: a proper subdomain at any depth
ProperSubdomain(host, domain) ==
  \E n \in 1..(Len(host) - Len(domain) - 1) :
    /\ IsLabels(SubSeq(host, 1, n))
    /\ host[n + 1] = "."
    /\ SameIgnoringCase(SubSeq(host, n + 2, Len(host)), domain)

IsWildcard(pattern) == Len(pattern) >= 2 /\ pattern[1] = "*" /\ pattern[2] = "."

\* C21: a pattern "*.D" matches every proper subdomain of D, at any depth, and
\* never D itself; a pattern without the wildcard matches exactly the hosts equal
\* to it; letters are compared without regard to case.
C21_HostPattern ==
  hm_result # "unset" =>
    IF IsWildcard(hm_pattern)
      THEN LET domain == From(hm_pattern, 2)
           IN  /\ ProperSubdomain(hm_host, domain) => hm_result = "True"
               /\ SameIgnoringCase(hm_host, domain) => hm_result = "False"
      ELSE hm_result = PyBool(SameIgnoringCase(hm_host, hm_pattern))

\* "*.d" has matched "a.A.d", a subdomain two levels down written in mixed case
C21_Witness ==
  /\ hm_pattern = <<"*", ".", "d">>
  /\ hm_host = <<"a", ".", "A", ".", "d">>
  /\ hm_result = "True"

Declared(i, j) == m_doc.paths[i].parameters \o m_doc.paths[i].items[j].parameters

\* the declared parameter is a query parameter that is required or has a default
QueryDeclared(p) ==
  /\ p.where = "query"
  /\ p.required = "true" \/ (p.schema # <<>> /\ p.schema[1].default # AbsentV)

\* the declared parameter is a path parameter that is required (as path parameters
\* are unless they say otherwise)
PathDeclared(p) == p.where = "path" /\ p.required # "false"

QueryNames(query) == [k \in 1..Len(query) |-> query[k][1]]

\* C23: in every mapped url each placeholder of a required path parameter is
\* replaced by a value, every other segment is the template's, and the query lists
\* name=value for exactly the query parameters that are required or have a schema
\* default, in declaration order with the path item's parameters first.
C23_ParametersInUrl ==
  \A n \in 1..Len(endpoints_acc) :
    \A i \in 1..Len(m_doc.paths) : \A j \in 1..Len(m_doc.paths[i].items) :
      LET ep == endpoints_acc[n]
          template == m_doc.paths[i].template
      IN  (template = ep.template /\ m_doc.paths[i].items[j].key = Lower(ep.method)) =>
            /\ Len(ep.url.path) = Len(template)
            /\ \A s \in 1..Len(template) :
                 IF \E k \in 1..Len(Declared(i, j)) :
                      /\ PathDeclared(Declared(i, j)[k])
                      /\ template[s] = Var(Declared(i, j)[k].name)
                   THEN ep.url.path[s].kind = "lit" /\ ep.url.path[s].text # <<>>
                   ELSE ep.url.path[s] = template[s]
            /\ QueryNames(ep.url.query) = NamesOf(SelectSeq(Declared(i, j), QueryDeclared))
            /\ \A k \in 1..Len(ep.url.query) : ep.url.query[k][2] # <<>>

\* /u/{id} with required q, defaulted page and optional limit was mapped to
\* /u/1?q=test&page=1
C23_Witness ==
  /\ map_pc = "returned"
  /\ \E n \in 1..Len(map_result) :
       /\ map_result[n].template = <<Lit("u"), Var("id")>>
       /\ map_result[n].url.path = <<Lit("u"), Lit("1")>>
       /\ map_result[n].url.query =
            << <<"q", <<"t", "e", "s", "t">> >>, <<"page", <<"1">> >> >>

\* ------------------------------------------------------------------------
\* Properties of the request bodies of mapped endpoints (SpecBodies)
\* ------------------------------------------------------------------------
\* the operation of the document an endpoint was mapped from
OpOf(ep) ==
  LET i == CHOOSE i \in 1..Len(m_doc.paths) : m_doc.paths[i].template = ep.template
      items == m_doc.paths[i].items
  IN  items[CHOOSE j \in 1..Len(items) : items[j].key = Lower(ep.method)]

\* the requestBody declares a schema under one of its content types
DeclaresSchema(rb) ==
  \E i \in 1..Len(rb.content) : rb.content[i][2].schema # <<>>

\* C24: an endpoint carries a body and content type exactly when its operation's
\* requestBody is required and declares a schema; a body sampled from an object
\* schema has every required property of that schema; an operation whose body
\* failed validation is emitted for each of its urls that is in scope.
C24_BodyAttached ==
  /\ \A n \in 1..Len(endpoints_acc) :
       LET ep == endpoints_acc[n]
           rb == OpOf(ep).requestBody
       IN  /\ ep.extra # NoBody <=>
                (rb.kind = "dict" /\ rb.required /\ DeclaresSchema(rb))
           /\ ep.extra # NoBody =>
                LET schema == ChosenMedia(rb)[1][2].schema[1]
                IN  schema.type = "object" =>
                      /\ ep.extra.body.kind = "dict"
                      /\ \A r \in schema.required : r \in DOMAIN ep.extra.body.fields
  /\ map_pc = "returned" =>
       \A w \in 1..Len(map_warnings) :
         \A i \in 1..Len(m_doc.paths) : \A b \in 1..Len(BasesOf(i)) :
           LET url == Url(BasesOf(i)[b], m_doc.paths[i].template, <<>>)
           IN  (/\ m_doc.paths[i].template = map_warnings[w][2]
                /\ HostScope(url, m_scope)
                /\ PathPolicyAllows(url, m_scope)) =>
                 \E n \in 1..Len(map_result) :
                   /\ map_result[n].method = Upper(map_warnings[w][1])
                   /\ map_result[n].url = url

\* ------------------------------------------------------------------------
\* Properties of the base urls of mapped endpoints (SpecServers)
\* ------------------------------------------------------------------------
\* the value a declared variable stands for: the first value of a non-empty enum,
\* else the default, else the empty string
ValueOfVariable(var_spec) ==
  IF var_spec.enum # <<>> THEN var_spec.enum[1]
  ELSE IF var_spec.default # <<>> THEN var_spec.default[1]
  ELSE ""

\* the url template of a server object with each declared variable replaced
Expanded(server_obj) ==
  LET variables == server_obj.variables
  IN  [i \in 1..Len(server_obj.url) |->
         IF \E k \in 1..Len(variables) : Brace(variables[k][1]) = server_obj.url[i]
           THEN ValueOfVariable(
                  variables[CHOOSE k \in 1..Len(variables) : Brace(variables[k][1]) = server_obj.url[i]][2])
           ELSE server_obj.url[i]]

\* a server object that names a url
NamesAUrl(server_obj) == server_obj.is_dict /\ ~IsEmptyUrl(Expanded(server_obj))

\* the urls a `servers` list declares
DeclaredUrls(servers) ==
  LET named == SelectSeq(servers, NamesAUrl)
  IN  [k \in 1..Len(named) |-> Expanded(named[k])]

\* the effective base urls of path item i
EffectiveBaseUrls(i) ==
  IF DeclaredUrls(m_doc.paths[i].servers) # <<>> THEN DeclaredUrls(m_doc.paths[i].servers)
  ELSE IF DeclaredUrls(m_doc.servers) # <<>> THEN DeclaredUrls(m_doc.servers)
  ELSE m_scope.base_urls

\* C25: the endpoints of a path item are built on its effective base urls, which
\* are the path item's servers when it declares any, else the document's servers
\* when it declares any, else the scope's base_urls, each variable of a server url
\* replaced by its first enum value, else its default, else the empty string:
\* every endpoint has such a base, and once the mapping has ended every effective
\* base url of a path item whose url is in scope has its endpoint.
C25_EffectiveBaseUrls ==
  /\ \A n \in 1..Len(endpoints_acc) :
       \E i \in 1..Len(m_doc.paths) :
         /\ m_doc.paths[i].template = endpoints_acc[n].template
         /\ \E b \in 1..Len(EffectiveBaseUrls(i)) :
              endpoints_acc[n].url.host = EffectiveBaseUrls(i)[b]
  /\ map_pc \in {"returned", "raised"} =>
       \A i \in 1..Len(m_doc.paths) : \A b \in 1..Len(EffectiveBaseUrls(i)) :
         LET url == UrlOf(i, 1, EffectiveBaseUrls(i)[b])
         IN  (HostScope(url, m_scope) /\ PathPolicyAllows(url, m_scope)) =>
               \E n \in 1..Len(endpoints_acc) :
                 /\ endpoints_acc[n].url = url
                 /\ endpoints_acc[n].template = m_doc.paths[i].template

\* the same, for the mappings that returned
C25_EffectiveWhenReturned == map_pc = "returned" => C25_EffectiveBaseUrls

\* ------------------------------------------------------------------------
\* Properties of loading the OpenAPI source (SpecLoader)
\* ------------------------------------------------------------------------
\* what the text parses to: json.loads' value, else yaml.safe_load's
ParsedKind == IF ld_text.json # "error" THEN ld_text.json ELSE ld_text.yaml

\* C26: a source whose text parses, as JSON or else as YAML, to something that is
\* not a mapping is rejected by the load itself: once the text has been parsed,
\* _load_spec has raised its "must be a JSON/YAML object" error and no document
\* was returned to the mapper.
C26_NonMappingRejected ==
  (ld_fetch = "ok" /\ ParsedKind \notin {"dict", "error"} /\ ld_pc \notin {"start", "read"}) =>
    /\ ld_pc = "raised"
    /\ ld_error = "ValueError"
    /\ ld_where = "_load_spec"

\* the same for the texts that only YAML parses
C26_YamlNonMappingRejected ==
  ld_text.json = "error" => C26_NonMappingRejected

\* a value that is not a mapping never reaches the loop over paths
C26_NeverMapped == ld_pc = "mapping" => ParsedKind = "dict"

\* ------------------------------------------------------------------------
\* Properties of the findings (SpecAnalysis)
\* ------------------------------------------------------------------------
\* the rows classified so far
Classified == {cl_rows[i] : i \in 1..(cl_i - 1)}

\* a finding of the type was produced for the row
HasFinding(r, type) ==
  \E n \in 1..Len(cl_findings) :
    cl_findings[n] = [Finding(type, cl_findings[n].severity, r) EXCEPT !.type = type]

\* some finding was produced for the row
HasAnyFinding(r) == \E n \in 1..Len(cl_findings) : HasFinding(r, cl_findings[n].type)

BothOk(r) == r.noauth_status \in {200, 206} /\ r.auth_status \in {200, 206}

\* the sizes differ by at most `percent` percent of the smaller one
SizesWithin(r, percent) ==
  100 * Abs(r.noauth_size - r.auth_size) <= percent * Max(1, Min(r.noauth_size, r.auth_size))

RECURSIVE SumOf(_)
SumOf(counts) ==
  IF DOMAIN counts = {} THEN 0
  ELSE LET k == CHOOSE k \in DOMAIN counts : TRUE
       IN  counts[k] + SumOf([x \in DOMAIN counts \ {k} |-> counts[x]])

\* the parts of the classification that do not depend on which statuses count as
\* success or redirect, and the totals
ClassificationRest ==
  /\ \A r \in Classified :
       /\ (r.requires_auth = "True" /\ BothOk(r) /\ SizesWithin(r, 10)) =>
            HasFinding(r, "POSSIBLE_CONTENT_LEAK")
       /\ (r.noauth_status \in {401, 403} /\ r.auth_status = 200) => ~HasAnyFinding(r)
       /\ (r.requires_auth \in {"None", "False"} /\ BothOk(r) /\ SizesWithin(r, 5)
             /\ PrivateLooking(r.url)) =>
            HasFinding(r, "SUSPECT_PRIVATE_ENDPOINT_OPEN")
  /\ cl_pc = "returned" =>
       /\ cl_counts.total_findings = SumOf(cl_counts.by_type)
       /\ cl_counts.total_findings = SumOf(cl_counts.by_severity)
       /\ cl_counts.total_findings = Len(cl_findings)

\* C27: a row with requires_auth true whose no-auth status is a 2xx success or a
\* 3xx redirect has an UNEXPECTED_2XX_OR_3XX_UNAUTH finding, and a
\* POSSIBLE_CONTENT_LEAK one when both statuses are 200/206 and the sizes differ by
\* at most 10%; a row with no-auth 401/403 and auth 200 has no finding; a row with
\* requires_auth unknown or false, both statuses 200/206, sizes within 5% and a
\* private-looking url has SUSPECT_PRIVATE_ENDPOINT_OPEN; total_findings is the sum
\* of the per-type counts and of the per-severity counts.
C27_Classification ==
  /\ \A r \in Classified :
       (r.requires_auth = "True" /\ r.noauth_status \in 200..399) =>
         HasFinding(r, "UNEXPECTED_2XX_OR_3XX_UNAUTH")
  /\ ClassificationRest

\* the same with the statuses the classifier lists
C27_ListedStatuses ==
  /\ \A r \in Classified :
       (r.requires_auth = "True" /\ r.noauth_status \in UnexpectedStatuses) =>
         HasFinding(r, "UNEXPECTED_2XX_OR_3XX_UNAUTH")
  /\ ClassificationRest

\* ------------------------------------------------------------------------
\* Properties of the attempt loop (SpecRetry)
\* ------------------------------------------------------------------------
\* the outcomes of the attempts made so far, in order
SendsOf(events) ==
  LET sends == SelectSeq(events, LAMBDA e : e.kind = "send")
  IN  [i \in 1..Len(sends) |-> sends[i].outcome]

Retryable(o) == o \in {429, 500, 502, 503, 504} \/ o = TransportFailure

\* C28: an attempt is followed by another only if it returned a retryable status or
\* failed at transport level, and only while attempts remain; the recorded attempts
\* count is the number of attempts made, which is the index of the first attempt
\* with another status when there is one, and lies between 1 and max_attempts,
\* max_attempts being at least 1; a backoff sleep lies between any two consecutive
\* attempts and none follows the last attempt.
C28_AttemptSequence ==
  LET sends == SendsOf(rt_events)
  IN  /\ rt_pc # "new" => rt_max_attempts >= 1 /\ rt_max_attempts >= rt_configured
      /\ \A i \in 1..Len(sends) :
           (i < Len(sends) \/ rt_pc = "backoff") =>
             (Retryable(sends[i]) /\ i < rt_max_attempts)
      /\ Len(sends) = rt_attempts
      /\ \A i \in 1..Len(rt_events) :
           /\ rt_events[i].kind = (IF i % 2 = 1 THEN "send" ELSE "backoff")
      /\ rt_pc = "done" =>
           /\ rt_snap.attempts = Len(sends)
           /\ 1 <= rt_snap.attempts /\ rt_snap.attempts <= rt_max_attempts
           /\ rt_events[Len(rt_events)].kind = "send"
           /\ (\E i \in 1..Len(sends) : ~Retryable(sends[i])) =>
                /\ ~Retryable(sends[rt_snap.attempts])
                /\ \A i \in 1..(rt_snap.attempts - 1) : Retryable(sends[i])
           /\ (\A i \in 1..Len(sends) : Retryable(sends[i])) =>
                rt_snap.attempts = rt_max_attempts

\* a request with max_attempts 3 that ended at its second attempt: the first was
\* answered 429 and followed by a backoff, the second was answered 404
C28_Witness ==
  /\ rt_pc = "done"
  /\ rt_configured = 3
  /\ rt_events = <<SendEvent(429), BackoffEvent, SendEvent(404)>>
  /\ rt_snap.attempts = 2

\* a request of a client configured with max_attempts 0 makes its one attempt
C28_WitnessCoerced ==
  /\ rt_pc = "done"
  /\ rt_configured = 0
  /\ rt_events = <<SendEvent(503)>>
  /\ rt_snap.attempts = 1

\* C29: the snapshot of a request reflects its last attempt: it is a
\* transport_error snapshot exactly when the last attempt failed at transport
\* level, and a response snapshot carries the status the last attempt returned.
C29_FinalAttemptRecorded ==
  rt_pc = "done" =>
    LET sends == SendsOf(rt_events)
        last == sends[Len(sends)]
    IN  /\ (rt_snap.kind = "error" /\ rt_snap.errtype = "transport_error")
             <=> last = TransportFailure
        /\ rt_snap.kind = "response" => rt_snap.status = last

\* the same for the requests no attempt of which got a response before a failure
C29_WithoutEarlierResponse ==
  LET sends == SendsOf(rt_events)
  IN  (\A i, j \in 1..Len(sends) :
         (i < j /\ sends[j] = TransportFailure) => sends[i] = TransportFailure)
        => C29_FinalAttemptRecorded

\* ------------------------------------------------------------------------
\* Order of the gates and progress of HttpClient.request (SpecFair)
\* ------------------------------------------------------------------------
\* call r holds what its position in request() requires: the global semaphore
\* before the per-host one, and one limiter acquisition per attempt before its send
GateOrder(r) ==
  /\ gates[r].h_acq = 1 => gates[r].g_acq = 1
  /\ rpc[r] = "acq_host" => (gates[r].g_acq = 1 /\ gates[r].h_acq = 0)
  /\ rpc[r] \in {"jitter", "limiter"} => gates[r].lim = attempts[r] - 1
  /\ rpc[r] = "send" => gates[r].lim = attempts[r]

\* the steps of call r follow request(): jitter after the gates or a backoff, the
\* limiter after the jitter, the send after the limiter
AttemptOrder(r) ==
  /\ (rpc'[r] = "jitter" /\ rpc[r] # "jitter") => rpc[r] \in {"acq_host", "backoff"}
  /\ (rpc'[r] = "limiter" /\ rpc[r] # "limiter") => rpc[r] = "jitter"
  /\ (rpc'[r] = "send" /\ rpc[r] # "send") => rpc[r] = "limiter"
  /\ (rpc'[r] = "acq_host" /\ rpc[r] # "acq_host") => rpc[r] = "acq_global"

\* call r has returned a snapshot and holds no gate
Returned(r) ==
  /\ rpc[r] = "done"
  /\ snap[r] # NoSnapshot
  /\ gates[r].g_rel = gates[r].g_acq
  /\ gates[r].h_rel = gates[r].h_acq

\* C30: every call takes the global gate before the per-host gate and in each
\* attempt sleeps the jitter, then passes the limiter, then sends; while a call is
\* under way some call can take a step; every call that was made returns a
\* snapshot with both gates released.
C30_OrderAndProgress ==
  /\ [](\A r \in Requests : GateOrder(r))
  /\ [][\A r \in Requests : AttemptOrder(r)]_vars
  /\ []((\E r \in Requests : rpc[r] \notin {"idle", "done"}) =>
          \E r \in Requests : ENABLED RequestProgress(r))
  /\ \A r \in Requests : (rpc[r] # "idle") ~> Returned(r)

\* with one slot in the global gate, two calls have both gone through their attempts
\* and returned, one of them after a backoff
C30_Witness ==
  /\ concurrency = 1
  /\ budget = 0
  /\ \A r \in Requests : Returned(r) /\ gates[r].g_acq = 1 /\ gates[r].h_rel = 1
  /\ \E r \in Requests : Len(outcomes[r]) >= 2

\* ------------------------------------------------------------------------
\* Batches, order of requests, identities and rows of a probe run (SpecProbe)
\* ------------------------------------------------------------------------
\* the batch endpoint e belongs to
BatchOf(e) == e \div BatchSize(concurrency)

\* the task of endpoint e was created and has not completed
ActiveTask(e) == tpc[e] \notin {"none", "done"}

\* some request was issued for endpoint e
HasRequested(e) == \E k \in 0..Len(effective_identities) : <<e, k>> \in DOMAIN probe_log

EventsOf(e, kind, k) == {i \in DOMAIN p1_events[e] : p1_events[e][i] = <<kind, k>>}

\* the positions at which endpoint e sent a request
SendsAt(e) == {i \in DOMAIN p1_events[e] : p1_events[e][i][1] = "send"}

\* C32: within one endpoint's probe the requests are strictly sequential: the
\* no-auth snapshot is written before the first identity request is sent, the
\* identity requests are sent one at a time in the order of the identity list
\* (each after the snapshot of the one before was written), and an endpoint never
\* has more than one request in flight.
C32_Sequential ==
  \A e \in EndpointIdx :
    /\ p1_inflight[e] <= 1
    /\ \A i \in SendsAt(e) :
         LET k == p1_events[e][i][2]
         IN k >= 1 => \E w \in EventsOf(e, "write", k - 1) : w < i
    /\ \A i1, i2 \in SendsAt(e) :
         i1 < i2 =>
           /\ p1_events[e][i1][2] <= p1_events[e][i2][2]
           /\ \E m \in DOMAIN p1_events[e] :
                i1 < m /\ m < i2 /\ p1_events[e][m] = <<"recv", p1_events[e][i1][2]>>

\* two endpoints each have a request in flight, one of them for its second identity
C32_Witness ==
  /\ Len(p1_identities) = 2
  /\ \E e1, e2 \in EndpointIdx :
       /\ e1 # e2
       /\ p1_inflight[e1] = 1 /\ p1_j[e1] = 2
       /\ p1_inflight[e2] = 1

\* auth_schemes of run_basic_probes, spelled out: the whole list with
\* use_all_identities, else its first entry
FirstOrAll ==
  IF use_all_identities THEN configured
  ELSE SubSeq(configured, 1, IF Len(configured) >= 1 THEN 1 ELSE 0)

StaticTypes == {"bearer", "header", "basic", "cookie"}

\* the k-th effective identity is the resolution of the k-th selected scheme, its
\* flow run once (cred = 1) or, for a static type, not at all (the scheme itself)
ResolvedOnce(k) ==
  LET s == FirstOrAll[k]
      eff == effective_identities[k]
  IN /\ eff.name = s.name
     /\ s.type \in StaticTypes => (eff.type = s.type /\ eff.cred = 0)
     /\ s.type = "oauth2" => (eff.type = "bearer" /\ eff.cred = 1)
     /\ s.type = "form_login" => (eff.type = "cookie" /\ eff.cred = 1)

\* C33: each selected identity is resolved exactly once per run, in configuration
\* order, and all resolutions complete before the first probe request; with
\* use_all_identities = false only the first configured identity is resolved and
\* used; static identity types pass through without a flow.
C33_ResolvedOnceUpFront ==
  /\ Len(effective_identities) <= Len(FirstOrAll)
  /\ \A k \in 1..Len(effective_identities) : ResolvedOnce(k)
  /\ (probe_log # <<>> \/ run_pc \in {"probing", "done"}) =>
       Len(effective_identities) = Len(FirstOrAll)
  /\ \A ek \in DOMAIN probe_log : ek[2] <= Len(FirstOrAll)
  /\ ~use_all_identities => Len(effective_identities) <= 1
  /\ run_pc = "resolve" => probe_log = <<>>
  /\ \A k \in 1..Len(FirstOrAll) :
       (run_error = "AuthFlowError" /\ k = Len(effective_identities) + 1)
          => FirstOrAll[k].type \notin StaticTypes

\* a run over a static and a dynamic identity with use_all_identities = false has
\* probed with the first one only
C33_Witness ==
  /\ ~use_all_identities
  /\ Len(configured) = 2
  /\ Len(effective_identities) = 1
  /\ effective_identities[1].type = "header"
  /\ \E e \in EndpointIdx : <<e, 1>> \in DOMAIN probe_log

\* a run has resolved a static and a dynamic identity, in order, and probes with both
C33_WitnessAll ==
  /\ use_all_identities
  /\ Len(effective_identities) = 2
  /\ effective_identities[1].type = "basic"
  /\ effective_identities[2].cred = 1
  /\ \E e \in EndpointIdx : <<e, 2>> \in DOMAIN probe_log

\* the snapshot written for endpoint e under identity k (0: no identity)
SnapshotOf(e, k) == (CHOOSE w \in written : w.e = e /\ w.k = k).snapshot

\* the variants entry a snapshot makes
EntryOf(snapshot) ==
  [status |-> IF snapshot.kind = "response" THEN snapshot.status ELSE None,
   size |-> IF snapshot.kind = "response" THEN "bytes" ELSE "null",
   error |-> IF snapshot.kind = "error" THEN snapshot.errtype ELSE "null"]

\* the names of the identities used
UsedNames == {effective_identities[k].name : k \in 1..Len(effective_identities)}

\* the matrix row of endpoint e: the keys are "noauth" and the identity names,
\* and every key holds the result of its own variant
MatrixRowRight(e) ==
  LET row == summary.matrix[e + 1]
  IN /\ row.index = e
     /\ DOMAIN row.variants = {"noauth"} \cup UsedNames
     /\ row.variants["noauth"] = EntryOf(SnapshotOf(e, 0))
     /\ \A k \in 1..Len(effective_identities) :
          row.variants[effective_identities[k].name] = EntryOf(SnapshotOf(e, k))

\* the legacy row of endpoint e: the no-auth result and the first identity's
LegacyRowRight(e) ==
  LET row == summary.rows[e + 1]
  IN /\ row.index = e
     /\ row.noauth_status = EntryOf(SnapshotOf(e, 0)).status
     /\ IF effective_identities = <<>>
          THEN row.auth_name = "null" /\ row.auth_status = None
          ELSE /\ row.auth_name = effective_identities[1].name
               /\ row.auth_status = EntryOf(SnapshotOf(e, 1)).status

\* C34: for every endpoint the matrix row's variants map has exactly the keys
\* "noauth" plus the name of every identity used, each holding that variant's own
\* status/size/error, "noauth" holding the unauthenticated result; the legacy row
\* carries the no-auth result and the result of the first identity only.
C34_Rows ==
  run_pc = "returned" =>
    \A e \in 0..(endpoints_n - 1) : MatrixRowRight(e) /\ LegacyRowRight(e)

\* the same for runs none of whose identities is named "noauth"
C34_RowsWithoutReservedName ==
  (run_pc = "returned" /\ "noauth" \notin UsedNames) =>
    \A e \in 0..(endpoints_n - 1) : MatrixRowRight(e) /\ LegacyRowRight(e)

\* the legacy rows, whatever the identity names
C34_LegacyRows ==
  run_pc = "returned" => \A e \in 0..(endpoints_n - 1) : LegacyRowRight(e)

\* a returned run over two identities whose results differ from the no-auth one
C34_Witness ==
  /\ run_pc = "returned"
  /\ Len(effective_identities) = 2
  /\ "noauth" \notin UsedNames
  /\ EntryOf(SnapshotOf(0, 0)).status = 401
  /\ EntryOf(SnapshotOf(0, 1)).status = 200
  /\ EntryOf(SnapshotOf(0, 2)).status = None

\* ------------------------------------------------------------------------
\* Properties of sample_schema_value over schemas with allOf (SpecAllOf)
\* ------------------------------------------------------------------------
\* the union of the properties of the members: a later member's declaration of a
\* name replaces an earlier one
RECURSIVE UnionProperties(_)
UnionProperties(members) ==
  IF members = <<>> THEN <<>>
  ELSE LET rest == UnionProperties(SubSeq(members, 1, Len(members) - 1))
           last == members[Len(members)]
           mine == IF last = <<>> THEN <<>> ELSE last[1].properties
       IN  SelectSeq(rest, LAMBDA p : p[1] \notin PropNames(mine)) \o mine

HasDictMember(schema) == \E i \in 1..Len(schema.allOf) : schema.allOf[i] # <<>>

\* C35: for a schema with allOf and no enum, sampling terminates and returns a
\* value sampled from an object schema whose properties are the union of the
\* properties of all allOf members.
C35_AllOfMerged ==
  (smp_result # Unset /\ smp_schema.base.enum = <<>> /\ HasDictMember(smp_schema)) =>
    /\ smp_result # RecursionError
    /\ smp_result =
         SampleSchemaValue([smp_schema.base EXCEPT
                              !.type = "object",
                              !.properties = UnionProperties(smp_schema.allOf)],
                           smp_hint)

\* what the code does instead: a schema with a dict among its allOf members and no
\* enum never returns a value
C35_AllOfRecursesForever ==
  (smp_result # Unset /\ smp_schema.base.enum = <<>> /\ HasDictMember(smp_schema)) =>
    smp_result = RecursionError

\* with an enum, or without a dict among the members, the allOf list is not used
C35_AllOfUnused ==
  (smp_result # Unset /\ (smp_schema.base.enum # <<>> \/ ~HasDictMember(smp_schema))) =>
    smp_result = IF smp_schema.base.enum # <<>> THEN PickEnum(smp_schema.base.enum)
                 ELSE SampleSchemaValue(smp_schema.base, smp_hint)

\* ------------------------------------------------------------------------
\* Sampler against validator (SpecAgree) and number sampling (SpecNumbers)
\* ------------------------------------------------------------------------
\* both bounds given implies lower <= upper (Absent for a missing length or count)
Ordered(lower, upper) == lower = Absent \/ upper = Absent \/ lower <= upper

\* some value satisfies the schema
Satisfiable(schema) ==
  CASE schema.type = "string" ->
         /\ Ordered(schema.minLength, schema.maxLength)
         /\ schema.enum # <<>> =>
              \E i \in 1..Len(schema.enum) :
                /\ schema.enum[i].kind = "str"
                /\ schema.minLength # Absent => Len(schema.enum[i].chars) >= schema.minLength
                /\ schema.maxLength # Absent => Len(schema.enum[i].chars) <= schema.maxLength
    [] schema.type = "array" -> Ordered(schema.minItems, schema.maxItems)
    [] schema.type \in {"integer", "number"} ->
         (schema.minimum # <<>> /\ schema.maximum # <<>>) =>
            schema.minimum[1] <= schema.maximum[1]
    [] schema.type = "object" ->
         schema.additionalProperties = "false" =>
           /\ schema.required \subseteq PropNames(schema.properties)
           /\ OrZero(schema.minProperties) <= Len(schema.properties)
    [] OTHER -> TRUE

\* C36: for every schema built from the supported keywords with satisfiable bounds
\* the body produced by sample_schema_value passes validate_generated_body against
\* the same schema.
C36_SamplerPassesValidator ==
  (smp_result # Unset /\ Satisfiable(smp_schema)) =>
    ValidateGeneratedBody(smp_result, smp_schema)

\* where the two agree: strings without enum, numbers, booleans, null, arrays whose
\* minItems is at most 3 or bounded by maxItems, objects whose required names are
\* all declared under properties
C36_AgreeElsewhere ==
  (/\ smp_result # Unset
   /\ Satisfiable(smp_schema)
   /\ smp_schema.enum = <<>>
   /\ smp_schema.type = "array" =>
        (OrZero(smp_schema.minItems) <= 3 \/ smp_schema.maxItems # Absent)
   /\ smp_schema.type = "object" =>
        smp_schema.required \subseteq PropNames(smp_schema.properties))
  => ValidateGeneratedBody(smp_result, smp_schema)

\* the schema is an integer schema with both bounds, minimum <= maximum
BoundedInteger(schema) ==
  /\ schema.type = "integer"
  /\ schema.example = AbsentV /\ schema.default = AbsentV
  /\ schema.minimum # <<>> /\ schema.maximum # <<>>
  /\ schema.minimum[1] <= schema.maximum[1]

\* the value is a whole number (an int, or a float without fractional part)
IsWhole(v) == v.kind = "num" \/ (v.kind = "float" /\ v.halves % 2 = 0)

\* C37: for a schema of type integer with integer minimum <= maximum and no example
\* or default, the sampled value is an integer v with minimum <= v <= maximum.
C37_IntegerInRange ==
  (smp_result # Unset /\ BoundedInteger(smp_schema)) =>
    /\ IsWhole(smp_result)
    /\ 2 * smp_schema.minimum[1] <= Twice(smp_result)
    /\ Twice(smp_result) <= 2 * smp_schema.maximum[1]

\* what holds: the sampled value is the midpoint as a float, within the bounds
C37_MidpointFloat ==
  (smp_result # Unset /\ BoundedInteger(smp_schema)) =>
    /\ smp_result = FloatV(smp_schema.minimum[1] + smp_schema.maximum[1])
    /\ 2 * smp_schema.minimum[1] <= Twice(smp_result)
    /\ Twice(smp_result) <= 2 * smp_schema.maximum[1]

\* with one bound, or none, the sampled value is an int within what is given
C37_OneBound ==
  (/\ smp_result # Unset
   /\ smp_schema.type = "integer"
   /\ smp_schema.minimum = <<>> \/ smp_schema.maximum = <<>>)
  => /\ smp_result.kind = "num"
     /\ smp_schema.minimum # <<>> => smp_result.n = smp_schema.minimum[1]
     /\ smp_schema.maximum # <<>> => smp_result.n = smp_schema.maximum[1]

\* ------------------------------------------------------------------------
\* The unlimited limiter, and the progress of its callers
\* ------------------------------------------------------------------------
\* C38: with rate = 0 (or a negative rate, stored as 0) the limiter is unlimited:
\* every acquire returns at once, without waiting, without the lock and without
\* recording a timestamp, for any number of concurrent callers.
C38_Unlimited ==
  rate <= 0 =>
    /\ \A c \in Callers : lpc[c] \in {"idle", "returned"}
    /\ \A c \in Callers : wake_at[c] = 0
    /\ lock_holder = None
    /\ lock_waiters = <<>>
    /\ dq = <<>>
    /\ acq_log = <<>>

\* every caller has returned from the unlimited limiter before the clock moved
C38_Witness ==
  /\ rate = 0
  /\ clock = 0
  /\ \A c \in Callers : lpc[c] = "returned"

\* a caller of acquire that has not returned yet
Waiting(c) == lpc[c] \in {"lock", "sleep"}

\* the callers enter the critical section one at a time, in arrival order
ServedInOrder ==
  \A c \in Callers :
    (lpc[c] \in {"idle", "lock"} /\ lpc'[c] \in {"sleep", "returned"}) =>
      /\ lock_holder = None
      /\ lock_waiters = <<>> \/ Head(lock_waiters) = c
      /\ lpc[c] = "idle" => lock_waiters = <<>>

\* the queue for the lock is first in, first out
QueueFifo ==
  \/ lock_waiters' = lock_waiters
  \/ lock_waiters # <<>> /\ lock_waiters' = Tail(lock_waiters)
  \/ \E c \in Callers : lpc[c] = "idle" /\ lock_waiters' = Append(lock_waiters, c)

\* the sleeper that returns records its timestamp
RecordsOnWake ==
  \A c \in Callers :
    (lpc[c] = "sleep" /\ lpc'[c] = "returned") =>
      /\ dq' # <<>>
      /\ dq'[Len(dq')] = clock
      /\ lock_holder' = None

\* C39: with rate R > 0 every acquire call eventually returns: callers are served
\* one at a time in arrival order, a caller that must wait holds the limiter lock
\* while sleeping for at most one second and then records its timestamp, and no
\* caller waits forever while other callers keep acquiring.
C39_EveryCallerReturns ==
  /\ [](\A c \in Callers :
          /\ lpc[c] = "sleep" => (lock_holder = c /\ wake_at[c] - clock <= Second)
          /\ lpc[c] = "lock" => \E i \in 1..Len(lock_waiters) : lock_waiters[i] = c)
  /\ [](Cardinality({c \in Callers : lpc[c] = "sleep"}) <= 1)
  /\ [][ServedInOrder /\ QueueFifo /\ RecordsOnWake]_vars
  /\ \A c \in Callers : Waiting(c) ~> (lpc[c] = "returned")

\* one caller has slept and returned, the next one sleeps holding the lock and a
\* third queues behind it
C39_Witness ==
  /\ rate > 0
  /\ \E c1, c2, c3 \in Callers :
       /\ lpc[c1] = "returned" /\ wake_at[c1] > 0
       /\ lpc[c2] = "sleep" /\ lock_holder = c2 /\ wake_at[c2] > clock
       /\ lpc[c3] = "lock"

\* ------------------------------------------------------------------------
\* Properties of lightweight_discover (SpecCrawl, SpecCrawlFair)
\* ------------------------------------------------------------------------
\* C40: with 4 concurrent workers sharing one fetch counter the number of pages
\* fetched never exceeds budget under any interleaving, and the crawl terminates:
\* every worker exits once the queue stays empty or the budget is reached.
C40_WithinBudget == cw_fetched <= cw_budget

\* what holds: every worker that tested the budget before the last fetch was
\* counted may still count one, so the overrun is below the number of workers
C40_Overrun ==
  /\ cw_fetched <= cw_budget + NumWorkers - 1
  /\ cw_budget = 0 => cw_fetched = 0

\* the crawl terminates: every worker exits
C40_Terminates == <>(\A w \in Workers : cw_pc[w] = "exited")

====
